---- MODULE Spec2Model ----
(***************************************************************************)
(* RentMaster: the lease / unit ("local") lifecycle of the REST backend.   *)
(*                                                                         *)
(* The relational store (tenants, properties, locals, leases, audit log)   *)
(* is the state.  Every HTTP handler is a sequence of store calls; each    *)
(* `await prisma...` is one atomic step of the request that issues it, and *)
(* the synchronous code that follows it up to the next await belongs to    *)
(* the same step.  Requests occupy slots: with one slot the handlers run   *)
(* one after the other (Spec), with two slots their store calls interleave *)
(* (SpecConc).                                                             *)
(***************************************************************************)
EXTENDS Integers, Sequences, FiniteSets, TLC

VARIABLES
    tenants,     \* ids of the rows of table Tenant
    tenantSeq,   \* number of tenant ids handed out so far (ids are never reused)
    properties,  \* ids of the rows of table Property
    propertySeq, \* number of property ids handed out so far
    locals,      \* table Local: id -> [property_id, reference_code, status]
    localSeq,    \* number of local ids handed out so far
    leases,      \* table Lease: id -> row; leases are never deleted, ids are 1..Len
    audit,       \* table AuditLog, in insertion order
    payments,    \* table Payment: id -> [lease_id, amount, payment_mode_id, status, paid_at]
    paymentSeq,  \* number of payment ids handed out so far
    documents,   \* table Document: id -> [owner_table, owner_id, file_key]
    documentSeq, \* number of document ids handed out so far
    fileSeq,     \* number of file names multer has generated so far
    files,       \* the files in uploads/documents, by name
    users,       \* table User: the rows, as [email, role]
    paymentModes,\* table PaymentMode: the codes of the rows
    req,         \* slot -> the request being handled in that slot
    slots,       \* the slots that accept requests
    budget,      \* requests still accepted
    now          \* the server clock

ledger == <<payments, paymentSeq>>
archive == <<documents, documentSeq, fileSeq, files>>
settings == <<users, paymentModes>>   \* the tables no modelled handler writes
store == <<tenants, tenantSeq, properties, propertySeq, locals, localSeq, leases, audit,
           ledger, archive>>
vars == <<tenants, tenantSeq, properties, propertySeq, locals, localSeq, leases, audit,
          payments, paymentSeq, documents, documentSeq, fileSeq, files,
          users, paymentModes, req, settings, slots, budget, now>>

(***************************************************************************)
(* Bounds of the model.                                                    *)
(***************************************************************************)
MaxRequests == 3       \* requests accepted in a sequential run
MaxConcRequests == 2   \* requests accepted in an interleaved run
MaxTenants == 2        \* tenant ids handed out (the first tenant included)
MaxLocals == 3         \* local ids handed out (the seed hands out two)

Slots == {"a", "b"}
LeaseRefs == {"LSE-1", "LSE-2"}
LocalRefs == {"LOC-101", "LOC-102", "LOC-103"}
PropertyIds == {1, 2}            \* the seeded property and an id no row has

NoDate == 0                      \* null / undefined date (falsy)
DateInputs == {NoDate, 1}
NoStatus == "undefined"          \* status absent from the body (falsy)
LeaseStatusInputs == {NoStatus, "ACTIVE", "TERMINATED"}
LocalStatusInputs == {NoStatus, "AVAILABLE", "OCCUPIED", "MAINTENANCE"}

(***************************************************************************)
(* Store queries.                                                          *)
(***************************************************************************)
LeaseIds == DOMAIN leases
LocalIds == DOMAIN locals

\* include: { leases: { where: { status: 'ACTIVE' } } }
ActiveLeasesOf(u) ==
    {i \in LeaseIds : leases[i].local_id = u /\ leases[i].status = "ACTIVE"}

\* include: { leases: true }
LeasesOfLocal(u) == {i \in LeaseIds : leases[i].local_id = u}

\* include: { leases: true } of a tenant
LeasesOfTenant(t) == {i \in LeaseIds : leases[i].tenant_id = t}

\* prisma.lease.findUnique({ where: { lease_reference } })
LeasesByReference(ref) == {i \in LeaseIds : leases[i].lease_reference = ref}

\* prisma.local.findUnique({ where: { reference_code } })
LocalsByReference(code) == {u \in LocalIds : locals[u].reference_code = code}

AuditEntry(action, table, id) ==
    [action |-> action, entity_table |-> table, entity_id |-> id]

\* prisma.auditLog.create
AuditLogCreate(action, table, id) ==
    audit' = Append(audit, AuditEntry(action, table, id))

(***************************************************************************)
(* Requests.                                                               *)
(***************************************************************************)
\* the Authorization header: absent, or a bearer token signed with a key,
\* expired or not, whose payload carries a role
NoToken == [present |-> FALSE, key |-> "", expired |-> FALSE, role |-> ""]

IdleReq ==
    [op |-> "none", pc |-> "idle", authorization |-> NoToken, id |-> 0, tenant_id |-> 0, local_id |-> 0,
     reference |-> "", date |-> NoDate, status |-> NoStatus,
     amount |-> 0, mode |-> 0, from |-> NoDate, to |-> NoDate, group_by |-> "",
     file |-> 0, table |-> "", doc_type |-> "", data |-> <<>>,
     row |-> 0, res |-> 0, msg |-> "", body |-> <<>>]

\* a handler is entered on a slot that holds no running request; "arrived" is a
\* request that has passed no middleware yet
Free(r) == r \in slots /\ req[r].pc \in {"idle", "done", "arrived"} /\ budget > 0

At(r, op, pc) == req[r].op = op /\ req[r].pc = pc

\* the request is accepted: its handler is entered with the parsed body
Accept(r, fields) ==
    /\ req' = [req EXCEPT ![r] = fields]
    /\ budget' = budget - 1
    /\ now' = now + 1
    /\ UNCHANGED <<store, settings, slots>>

Goto(r, pc) == req' = [req EXCEPT ![r].pc = pc]

\* res.status(code).json({ message }): the handler returns and its locals are gone;
\* the slot keeps the response until the next request is accepted
Respond(r, code, msg) ==
    req' = [req EXCEPT ![r] = [IdleReq EXCEPT !.op = req[r].op, !.pc = "done",
                                              !.res = code, !.msg = msg]]

\* res.json(body)
RespondJson(r, body) ==
    req' = [req EXCEPT ![r] = [IdleReq EXCEPT !.op = req[r].op, !.pc = "done",
                                              !.res = 200, !.body = body]]

\* catch (error) { res.status(500).json({ message: 'Internal server error' }) }
Throw(r) == Respond(r, 500, "Internal server error")

(***************************************************************************)
(* The store after `prisma db seed` (one property with two available       *)
(* locals, no lease) and the registration of the first tenant, which is    *)
(* what createTenant leaves: the tenant row and its CREATE audit entry.    *)
(***************************************************************************)
\* prisma.user of the seed: admin and manager
SeedUsers ==
    {[email |-> "admin@rentmaster.com", role |-> "ADMIN"],
     [email |-> "manager@rentmaster.com", role |-> "MANAGER"]}

\* prisma.paymentMode.createMany of the seed
SeedPaymentModes == {"CASH", "BANK_TRANSFER", "MOBILE_MONEY"}

SeedLocals ==
    (1 :> [property_id |-> 1, reference_code |-> "LOC-101", status |-> "AVAILABLE"])
    @@ (2 :> [property_id |-> 1, reference_code |-> "LOC-102", status |-> "AVAILABLE"])

InitStore ==
    /\ tenants = {1}
    /\ tenantSeq = 1
    /\ properties = {1}
    /\ propertySeq = 1
    /\ locals = SeedLocals
    /\ localSeq = 2
    /\ leases = <<>>
    /\ audit = <<AuditEntry("CREATE", "Tenant", 1)>>
    /\ payments = <<>>
    /\ paymentSeq = 0
    /\ documents = <<>>
    /\ documentSeq = 0
    /\ fileSeq = 0
    /\ files = {}
    /\ users = SeedUsers
    /\ paymentModes = SeedPaymentModes
    /\ req = [r \in Slots |-> IdleReq]
    /\ now = 1

Init == InitStore /\ slots = {"a"} /\ budget = MaxRequests

InitConc == InitStore /\ slots = Slots /\ budget = MaxConcRequests

(***************************************************************************)
(* createTenant                                                            *)
(***************************************************************************)
route_createTenant(r) ==
    /\ Free(r)
    /\ tenantSeq + Cardinality({s \in Slots : At(s, "createTenant", "create")}) < MaxTenants
    /\ Accept(r, [IdleReq EXCEPT !.op = "createTenant", !.pc = "create"])

createTenant_create(r) ==
    /\ At(r, "createTenant", "create")
    /\ tenantSeq' = tenantSeq + 1
    /\ tenants' = tenants \cup {tenantSeq + 1}
    /\ req' = [req EXCEPT ![r].pc = "audit", ![r].row = tenantSeq + 1]
    /\ UNCHANGED <<properties, propertySeq, locals, localSeq, leases, audit,
                   ledger, archive, settings, slots, budget, now>>

createTenant_audit(r) ==
    /\ At(r, "createTenant", "audit")
    /\ AuditLogCreate("CREATE", "Tenant", req[r].row)
    /\ Respond(r, 201, "")
    /\ UNCHANGED <<tenants, tenantSeq, properties, propertySeq, locals, localSeq, leases,
                   ledger, archive, settings, slots, budget, now>>

(***************************************************************************)
(* deleteTenant                                                            *)
(***************************************************************************)
route_deleteTenant(r) ==
    /\ Free(r)
    /\ \E t \in 1..(tenantSeq + 1) :
          Accept(r, [IdleReq EXCEPT !.op = "deleteTenant", !.pc = "find", !.id = t])

\* deleteTenant that does not look at the leases of the tenant
deleteTenant_find_noLeaseCheck(r) ==
    /\ At(r, "deleteTenant", "find")
    /\ IF req[r].id \notin tenants
         THEN Respond(r, 404, "Tenant not found")
         ELSE Goto(r, "delete")
    /\ UNCHANGED <<store, settings, slots, budget, now>>

deleteTenant_find(r) ==
    /\ At(r, "deleteTenant", "find")
    /\ IF req[r].id \notin tenants
         THEN Respond(r, 404, "Tenant not found")
       ELSE IF LeasesOfTenant(req[r].id) # {}
         THEN Respond(r, 400, "Cannot delete tenant with existing leases")
       ELSE Goto(r, "delete")
    /\ UNCHANGED <<store, settings, slots, budget, now>>

\* prisma.tenant.delete: the store rejects the delete of a row that is gone or
\* that a lease still references (Lease.tenant is a required relation)
deleteTenant_delete(r) ==
    /\ At(r, "deleteTenant", "delete")
    /\ LET t == req[r].id IN
       IF t \notin tenants \/ LeasesOfTenant(t) # {}
         THEN Throw(r) /\ UNCHANGED tenants
         ELSE /\ tenants' = tenants \ {t}
              /\ Goto(r, "audit")
    /\ UNCHANGED <<tenantSeq, properties, propertySeq, locals, localSeq, leases, audit,
                   ledger, archive, settings, slots, budget, now>>

deleteTenant_audit(r) ==
    /\ At(r, "deleteTenant", "audit")
    /\ AuditLogCreate("DELETE", "Tenant", req[r].id)
    /\ Respond(r, 204, "")
    /\ UNCHANGED <<tenants, tenantSeq, properties, propertySeq, locals, localSeq, leases,
                   ledger, archive, settings, slots, budget, now>>

(***************************************************************************)
(* createLease                                                             *)
(***************************************************************************)
\* leaseSchema: the keys of the body the handlers read and the schema constrains
validate_leaseSchema(body) ==
    /\ body.lease_reference \in LeaseRefs
    /\ body.end_date \in DateInputs

\* validate(): whether a key the schema does not name reaches the handler.  The
\* lease update "allows changing reference, dates, rent amount, billing cycle,
\* and status directly", and the client sends status with every update, so the
\* status key of a PUT /api/leases/:id body is let through.
validate_passesUnknownKeys == TRUE

updateLease_statusInputs ==
    IF validate_passesUnknownKeys THEN LeaseStatusInputs ELSE {NoStatus}

route_createLease(r) ==
    /\ Free(r)
    /\ \E t \in 1..(tenantSeq + 1), u \in 1..(localSeq + 1), ref \in LeaseRefs, d \in DateInputs :
          /\ validate_leaseSchema([lease_reference |-> ref, end_date |-> d])
          /\ Accept(r, [IdleReq EXCEPT !.op = "createLease", !.pc = "findTenant",
                                       !.tenant_id = t, !.local_id = u,
                                       !.reference = ref, !.date = d])

createLease_findTenant(r) ==
    /\ At(r, "createLease", "findTenant")
    /\ IF req[r].tenant_id \notin tenants
         THEN Respond(r, 404, "Tenant not found")
         ELSE Goto(r, "findLocal")
    /\ UNCHANGED <<store, settings, slots, budget, now>>

\* createLease that only checks that the local exists
createLease_findLocal_unchecked(r) ==
    /\ At(r, "createLease", "findLocal")
    /\ IF req[r].local_id \notin LocalIds
         THEN Respond(r, 404, "Local not found")
         ELSE Goto(r, "findReference")
    /\ UNCHANGED <<store, settings, slots, budget, now>>

\* createLease that looks at the active leases before the status
createLease_findLocal_swapped(r) ==
    /\ At(r, "createLease", "findLocal")
    /\ LET u == req[r].local_id IN
       IF u \notin LocalIds
         THEN Respond(r, 404, "Local not found")
       ELSE IF ActiveLeasesOf(u) # {}
         THEN Respond(r, 400, "Local is already leased")
       ELSE IF locals[u].status # "AVAILABLE"
         THEN Respond(r, 400, "Local is not available")
       ELSE Goto(r, "findReference")
    /\ UNCHANGED <<store, settings, slots, budget, now>>

createLease_findLocal(r) ==
    /\ At(r, "createLease", "findLocal")
    /\ LET u == req[r].local_id IN
       IF u \notin LocalIds
         THEN Respond(r, 404, "Local not found")
       ELSE IF locals[u].status # "AVAILABLE"
         THEN Respond(r, 400, "Local is not available")
       ELSE IF ActiveLeasesOf(u) # {}
         THEN Respond(r, 400, "Local is already leased")
       ELSE Goto(r, "findReference")
    /\ UNCHANGED <<store, settings, slots, budget, now>>

\* createLease without the lookup of the lease reference
createLease_findReference_unchecked(r) ==
    /\ At(r, "createLease", "findReference")
    /\ Goto(r, "create")
    /\ UNCHANGED <<store, settings, slots, budget, now>>

createLease_findReference(r) ==
    /\ At(r, "createLease", "findReference")
    /\ IF LeasesByReference(req[r].reference) # {}
         THEN Respond(r, 400, "Lease reference already exists")
         ELSE Goto(r, "create")
    /\ UNCHANGED <<store, settings, slots, budget, now>>

\* prisma.lease.create: the store rejects a dangling tenant_id or local_id and
\* a duplicate lease_reference; the handler's catch turns the rejection into 500
createLease_create(r) ==
    /\ At(r, "createLease", "create")
    /\ IF \/ req[r].tenant_id \notin tenants
          \/ req[r].local_id \notin LocalIds
          \/ LeasesByReference(req[r].reference) # {}
         THEN Throw(r) /\ UNCHANGED leases
         ELSE /\ leases' = Append(leases,
                     [tenant_id |-> req[r].tenant_id,
                      local_id |-> req[r].local_id,
                      lease_reference |-> req[r].reference,
                      end_date |-> req[r].date,
                      status |-> "ACTIVE"])
              /\ req' = [req EXCEPT ![r].pc = "updateLocal", ![r].row = Len(leases) + 1]
    /\ UNCHANGED <<tenants, tenantSeq, properties, propertySeq, locals, localSeq, audit,
                   ledger, archive, settings, slots, budget, now>>

\* createLease that leaves the local as it is
createLease_updateLocal_skipped(r) ==
    /\ At(r, "createLease", "updateLocal")
    /\ Goto(r, "audit")
    /\ UNCHANGED <<store, settings, slots, budget, now>>

createLease_updateLocal(r) ==
    /\ At(r, "createLease", "updateLocal")
    /\ IF req[r].local_id \notin LocalIds
         THEN Throw(r) /\ UNCHANGED locals
         ELSE /\ locals' = [locals EXCEPT ![req[r].local_id].status = "OCCUPIED"]
              /\ Goto(r, "audit")
    /\ UNCHANGED <<tenants, tenantSeq, properties, propertySeq, localSeq, leases, audit,
                   ledger, archive, settings, slots, budget, now>>

createLease_audit(r) ==
    /\ At(r, "createLease", "audit")
    /\ AuditLogCreate("CREATE", "Lease", req[r].row)
    /\ Respond(r, 201, "")
    /\ UNCHANGED <<tenants, tenantSeq, properties, propertySeq, locals, localSeq, leases,
                   ledger, archive, settings, slots, budget, now>>

(***************************************************************************)
(* updateLease                                                             *)
(***************************************************************************)
\* the value prisma.lease.update writes for a field: undefined leaves it as it is
OrKeep(value, absent, old) == IF value = absent THEN old ELSE value

route_updateLease(r) ==
    /\ Free(r)
    /\ \E i \in 1..(Len(leases) + 1), ref \in LeaseRefs, d \in DateInputs,
          st \in updateLease_statusInputs :
          /\ validate_leaseSchema([lease_reference |-> ref, end_date |-> d])
          /\ Accept(r, [IdleReq EXCEPT !.op = "updateLease", !.pc = "find",
                                       !.id = i, !.reference = ref,
                                       !.date = d, !.status = st])

updateLease_find(r) ==
    /\ At(r, "updateLease", "find")
    /\ IF req[r].id \notin LeaseIds
         THEN Respond(r, 404, "Lease not found")
       ELSE IF req[r].reference # "" /\ req[r].reference # leases[req[r].id].lease_reference
         THEN Goto(r, "findReference")
       ELSE Goto(r, "update")
    /\ UNCHANGED <<store, settings, slots, budget, now>>

\* updateLease that writes an audit entry for the update it rejects
updateLease_findReference_logsRejection(r) ==
    /\ At(r, "updateLease", "findReference")
    /\ IF LeasesByReference(req[r].reference) # {}
         THEN /\ AuditLogCreate("UPDATE", "Lease", req[r].id)
              /\ Respond(r, 400, "Lease reference already exists")
         ELSE Goto(r, "update") /\ UNCHANGED audit
    /\ UNCHANGED <<tenants, tenantSeq, properties, propertySeq, locals, localSeq, leases,
                   ledger, archive, settings, slots, budget, now>>

updateLease_findReference(r) ==
    /\ At(r, "updateLease", "findReference")
    /\ IF LeasesByReference(req[r].reference) # {}
         THEN Respond(r, 400, "Lease reference already exists")
         ELSE Goto(r, "update")
    /\ UNCHANGED <<store, settings, slots, budget, now>>

\* updateLease without the branch on status === 'TERMINATED'
updateLease_update_noBranch(r) ==
    /\ At(r, "updateLease", "update")
    /\ LET i == req[r].id IN
       IF LeasesByReference(req[r].reference) \ {i} # {}
         THEN Throw(r) /\ UNCHANGED leases
         ELSE /\ leases' = [leases EXCEPT
                     ![i].lease_reference = OrKeep(req[r].reference, "", @),
                     ![i].end_date = OrKeep(req[r].date, NoDate, @),
                     ![i].status = OrKeep(req[r].status, NoStatus, @)]
              /\ Goto(r, "audit")
    /\ UNCHANGED <<tenants, tenantSeq, properties, propertySeq, locals, localSeq, audit,
                   ledger, archive, settings, slots, budget, now>>

\* prisma.lease.update, then the synchronous `if (status === 'TERMINATED')`
updateLease_update(r) ==
    /\ At(r, "updateLease", "update")
    /\ LET i == req[r].id IN
       IF LeasesByReference(req[r].reference) \ {i} # {}
         THEN Throw(r) /\ UNCHANGED leases
         ELSE /\ leases' = [leases EXCEPT
                     ![i].lease_reference = OrKeep(req[r].reference, "", @),
                     ![i].end_date = OrKeep(req[r].date, NoDate, @),
                     ![i].status = OrKeep(req[r].status, NoStatus, @)]
              /\ IF req[r].status = "TERMINATED"
                   THEN Goto(r, "updateLocal")
                   ELSE Goto(r, "audit")
    /\ UNCHANGED <<tenants, tenantSeq, properties, propertySeq, locals, localSeq, audit,
                   ledger, archive, settings, slots, budget, now>>

updateLease_updateLocal(r) ==
    /\ At(r, "updateLease", "updateLocal")
    /\ LET u == leases[req[r].id].local_id IN
       IF u \notin LocalIds
         THEN Throw(r) /\ UNCHANGED locals
         ELSE /\ locals' = [locals EXCEPT ![u].status = "AVAILABLE"]
              /\ Goto(r, "audit")
    /\ UNCHANGED <<tenants, tenantSeq, properties, propertySeq, localSeq, leases, audit,
                   ledger, archive, settings, slots, budget, now>>

updateLease_audit(r) ==
    /\ At(r, "updateLease", "audit")
    /\ AuditLogCreate("UPDATE", "Lease", req[r].id)
    /\ Respond(r, 200, "")
    /\ UNCHANGED <<tenants, tenantSeq, properties, propertySeq, locals, localSeq, leases,
                   ledger, archive, settings, slots, budget, now>>

(***************************************************************************)
(* terminateLease                                                          *)
(***************************************************************************)
\* validate(terminateLeaseSchema)
validate_terminateLeaseSchema(body) == body.termination_date \in DateInputs

route_terminateLease(r) ==
    /\ Free(r)
    /\ \E i \in 1..(Len(leases) + 1), d \in DateInputs :
          /\ validate_terminateLeaseSchema([termination_date |-> d])
          /\ Accept(r, [IdleReq EXCEPT !.op = "terminateLease", !.pc = "find",
                                       !.id = i, !.date = d])

\* terminateLease without the check of existingLease.status
terminateLease_find_noStatusCheck(r) ==
    /\ At(r, "terminateLease", "find")
    /\ IF req[r].id \notin LeaseIds
         THEN Respond(r, 404, "Lease not found")
         ELSE Goto(r, "update")
    /\ UNCHANGED <<store, settings, slots, budget, now>>

terminateLease_find(r) ==
    /\ At(r, "terminateLease", "find")
    /\ IF req[r].id \notin LeaseIds
         THEN Respond(r, 404, "Lease not found")
       ELSE IF leases[req[r].id].status = "TERMINATED"
         THEN Respond(r, 400, "Lease is already terminated")
       ELSE Goto(r, "update")
    /\ UNCHANGED <<store, settings, slots, budget, now>>

\* terminateLease that stores termination_date as it came, without the default
terminateLease_update_noDefault(r) ==
    /\ At(r, "terminateLease", "update")
    /\ leases' = [leases EXCEPT
           ![req[r].id].status = "TERMINATED",
           ![req[r].id].end_date = req[r].date]
    /\ Goto(r, "updateLocal")
    /\ UNCHANGED <<tenants, tenantSeq, properties, propertySeq, locals, localSeq, audit,
                   ledger, archive, settings, slots, budget, now>>

\* termination_date ? new Date(termination_date) : new Date()
terminateLease_update(r) ==
    /\ At(r, "terminateLease", "update")
    /\ leases' = [leases EXCEPT
           ![req[r].id].status = "TERMINATED",
           ![req[r].id].end_date = IF req[r].date # NoDate THEN req[r].date ELSE now]
    /\ Goto(r, "updateLocal")
    /\ UNCHANGED <<tenants, tenantSeq, properties, propertySeq, locals, localSeq, audit,
                   ledger, archive, settings, slots, budget, now>>

\* terminateLease that leaves the local as it is
terminateLease_updateLocal_skipped(r) ==
    /\ At(r, "terminateLease", "updateLocal")
    /\ Goto(r, "audit")
    /\ UNCHANGED <<store, settings, slots, budget, now>>

terminateLease_updateLocal(r) ==
    /\ At(r, "terminateLease", "updateLocal")
    /\ LET u == leases[req[r].id].local_id IN
       IF u \notin LocalIds
         THEN Throw(r) /\ UNCHANGED locals
         ELSE /\ locals' = [locals EXCEPT ![u].status = "AVAILABLE"]
              /\ Goto(r, "audit")
    /\ UNCHANGED <<tenants, tenantSeq, properties, propertySeq, localSeq, leases, audit,
                   ledger, archive, settings, slots, budget, now>>

terminateLease_audit(r) ==
    /\ At(r, "terminateLease", "audit")
    /\ AuditLogCreate("TERMINATE", "Lease", req[r].id)
    /\ Respond(r, 200, "")
    /\ UNCHANGED <<tenants, tenantSeq, properties, propertySeq, locals, localSeq, leases,
                   ledger, archive, settings, slots, budget, now>>

(***************************************************************************)
(* createLocal, updateLocal, deleteLocal                                   *)
(***************************************************************************)
\* validate(localSchema)
validate_localSchema(body) ==
    /\ body.reference_code \in LocalRefs
    /\ body.status \in LocalStatusInputs

route_createLocal(r) ==
    /\ Free(r)
    /\ localSeq + Cardinality({s \in Slots : req[s].op = "createLocal"
                                 /\ req[s].pc \in {"findProperty", "findReference", "create"}})
         < MaxLocals
    /\ \E p \in PropertyIds, code \in LocalRefs, st \in LocalStatusInputs :
          /\ validate_localSchema([reference_code |-> code, status |-> st])
          /\ Accept(r, [IdleReq EXCEPT !.op = "createLocal", !.pc = "findProperty",
                                       !.id = p, !.reference = code, !.status = st])

createLocal_findProperty(r) ==
    /\ At(r, "createLocal", "findProperty")
    /\ IF req[r].id \notin properties
         THEN Respond(r, 404, "Property not found")
         ELSE Goto(r, "findReference")
    /\ UNCHANGED <<store, settings, slots, budget, now>>

createLocal_findReference(r) ==
    /\ At(r, "createLocal", "findReference")
    /\ IF LocalsByReference(req[r].reference) # {}
         THEN Respond(r, 400, "Reference code already exists")
         ELSE Goto(r, "create")
    /\ UNCHANGED <<store, settings, slots, budget, now>>

\* prisma.local.create with status: status || 'AVAILABLE'
createLocal_create(r) ==
    /\ At(r, "createLocal", "create")
    /\ IF req[r].id \notin properties \/ LocalsByReference(req[r].reference) # {}
         THEN Throw(r) /\ UNCHANGED <<locals, localSeq>>
         ELSE /\ localSeq' = localSeq + 1
              /\ locals' = locals @@ ((localSeq + 1) :>
                     [property_id |-> req[r].id,
                      reference_code |-> req[r].reference,
                      status |-> OrKeep(req[r].status, NoStatus, "AVAILABLE")])
              /\ req' = [req EXCEPT ![r].pc = "audit", ![r].row = localSeq + 1]
    /\ UNCHANGED <<tenants, tenantSeq, properties, propertySeq, leases, audit,
                   ledger, archive, settings, slots, budget, now>>

createLocal_audit(r) ==
    /\ At(r, "createLocal", "audit")
    /\ AuditLogCreate("CREATE", "Local", req[r].row)
    /\ Respond(r, 201, "")
    /\ UNCHANGED <<tenants, tenantSeq, properties, propertySeq, locals, localSeq, leases,
                   ledger, archive, settings, slots, budget, now>>

route_updateLocal(r) ==
    /\ Free(r)
    /\ \E u \in 1..(localSeq + 1), code \in LocalRefs, st \in LocalStatusInputs :
          /\ validate_localSchema([reference_code |-> code, status |-> st])
          /\ Accept(r, [IdleReq EXCEPT !.op = "updateLocal", !.pc = "find",
                                       !.id = u, !.reference = code, !.status = st])

updateLocal_find(r) ==
    /\ At(r, "updateLocal", "find")
    /\ IF req[r].id \notin LocalIds
         THEN Respond(r, 404, "Local not found")
       ELSE IF req[r].reference # "" /\ req[r].reference # locals[req[r].id].reference_code
         THEN Goto(r, "findReference")
       ELSE Goto(r, "update")
    /\ UNCHANGED <<store, settings, slots, budget, now>>

updateLocal_findReference(r) ==
    /\ At(r, "updateLocal", "findReference")
    /\ IF LocalsByReference(req[r].reference) # {}
         THEN Respond(r, 400, "Reference code already exists")
         ELSE Goto(r, "update")
    /\ UNCHANGED <<store, settings, slots, budget, now>>

updateLocal_update(r) ==
    /\ At(r, "updateLocal", "update")
    /\ LET u == req[r].id IN
       IF u \notin LocalIds \/ LocalsByReference(req[r].reference) \ {u} # {}
         THEN Throw(r) /\ UNCHANGED locals
         ELSE /\ locals' = [locals EXCEPT
                     ![u].reference_code = OrKeep(req[r].reference, "", @),
                     ![u].status = OrKeep(req[r].status, NoStatus, @)]
              /\ Goto(r, "audit")
    /\ UNCHANGED <<tenants, tenantSeq, properties, propertySeq, localSeq, leases, audit,
                   ledger, archive, settings, slots, budget, now>>

updateLocal_audit(r) ==
    /\ At(r, "updateLocal", "audit")
    /\ AuditLogCreate("UPDATE", "Local", req[r].id)
    /\ Respond(r, 200, "")
    /\ UNCHANGED <<tenants, tenantSeq, properties, propertySeq, locals, localSeq, leases,
                   ledger, archive, settings, slots, budget, now>>

route_deleteLocal(r) ==
    /\ Free(r)
    /\ \E u \in 1..(localSeq + 1) :
          Accept(r, [IdleReq EXCEPT !.op = "deleteLocal", !.pc = "find", !.id = u])

deleteLocal_find(r) ==
    /\ At(r, "deleteLocal", "find")
    /\ IF req[r].id \notin LocalIds
         THEN Respond(r, 404, "Local not found")
       ELSE IF LeasesOfLocal(req[r].id) # {}
         THEN Respond(r, 400, "Cannot delete local with existing leases")
       ELSE Goto(r, "delete")
    /\ UNCHANGED <<store, settings, slots, budget, now>>

\* prisma.local.delete on a store without the foreign key Lease_local_id_fkey
deleteLocal_delete_unrestricted(r) ==
    /\ At(r, "deleteLocal", "delete")
    /\ LET u == req[r].id IN
       IF u \notin LocalIds
         THEN Throw(r) /\ UNCHANGED locals
         ELSE /\ locals' = [v \in LocalIds \ {u} |-> locals[v]]
              /\ Goto(r, "audit")
    /\ UNCHANGED <<tenants, tenantSeq, properties, propertySeq, localSeq, leases, audit,
                   ledger, archive, settings, slots, budget, now>>

\* prisma.local.delete: the store rejects the delete of a row that is gone or
\* that a lease still references
deleteLocal_delete(r) ==
    /\ At(r, "deleteLocal", "delete")
    /\ LET u == req[r].id IN
       IF u \notin LocalIds \/ LeasesOfLocal(u) # {}
         THEN Throw(r) /\ UNCHANGED locals
         ELSE /\ locals' = [v \in LocalIds \ {u} |-> locals[v]]
              /\ Goto(r, "audit")
    /\ UNCHANGED <<tenants, tenantSeq, properties, propertySeq, localSeq, leases, audit,
                   ledger, archive, settings, slots, budget, now>>

deleteLocal_audit(r) ==
    /\ At(r, "deleteLocal", "audit")
    /\ AuditLogCreate("DELETE", "Local", req[r].id)
    /\ Respond(r, 204, "")
    /\ UNCHANGED <<tenants, tenantSeq, properties, propertySeq, locals, localSeq, leases,
                   ledger, archive, settings, slots, budget, now>>

Next ==
    \E r \in Slots :
        \/ route_createTenant(r)
        \/ createTenant_create(r)
        \/ createTenant_audit(r)
        \/ route_deleteTenant(r)
        \/ deleteTenant_find(r)
        \/ deleteTenant_delete(r)
        \/ deleteTenant_audit(r)
        \/ route_createLease(r)
        \/ createLease_findTenant(r)
        \/ createLease_findLocal(r)
        \/ createLease_findReference(r)
        \/ createLease_create(r)
        \/ createLease_updateLocal(r)
        \/ createLease_audit(r)
        \/ route_updateLease(r)
        \/ updateLease_find(r)
        \/ updateLease_findReference(r)
        \/ updateLease_update(r)
        \/ updateLease_updateLocal(r)
        \/ updateLease_audit(r)
        \/ route_terminateLease(r)
        \/ terminateLease_find(r)
        \/ terminateLease_update(r)
        \/ terminateLease_updateLocal(r)
        \/ terminateLease_audit(r)
        \/ route_createLocal(r)
        \/ createLocal_findProperty(r)
        \/ createLocal_findReference(r)
        \/ createLocal_create(r)
        \/ createLocal_audit(r)
        \/ route_updateLocal(r)
        \/ updateLocal_find(r)
        \/ updateLocal_findReference(r)
        \/ updateLocal_update(r)
        \/ updateLocal_audit(r)
        \/ route_deleteLocal(r)
        \/ deleteLocal_find(r)
        \/ deleteLocal_delete(r)
        \/ deleteLocal_audit(r)

Spec == Init /\ [][Next]_vars

SpecConc == InitConc /\ [][Next]_vars

(***************************************************************************)
(* Payments.  The seed creates three payment modes; no handler adds or     *)
(* removes one.                                                            *)
(***************************************************************************)
MaxPayRequests == 4       \* requests accepted in a sequential run on payments
MaxPayConcRequests == 2   \* requests accepted in an interleaved run on payments
MaxPayments == 3          \* payment ids handed out

PaymentModeNames == <<"Cash", "Bank Transfer", "Mobile Money">>
PaymentModeIds == DOMAIN PaymentModeNames
PaymentIds == DOMAIN payments

AmountInputs == {50, 100, 200}
PaymentModeInputs == {1, 2, 4}        \* two seeded modes and an id no mode has
PaymentStatusInputs == {NoStatus, "PENDING", "COMPLETED"}

\* paymentSchema: the keys of the body the handlers read
validate_paymentSchema(body) ==
    /\ body.amount > 0
    /\ body.status \in {NoStatus, "PENDING", "COMPLETED"}

\* include: { documents: true } of a payment
DocumentsOfPayment(i) ==
    {k \in DOMAIN documents : /\ documents[k].owner_table = "PAYMENTS"
                              /\ documents[k].owner_id = i}

route_createPayment(r) ==
    /\ Free(r)
    /\ paymentSeq + Cardinality({s \in Slots : req[s].op = "createPayment"
                                   /\ req[s].pc \in {"findLease", "findMode", "create"}})
          < MaxPayments
    /\ \E i \in 1..(Len(leases) + 1), a \in AmountInputs, pm \in PaymentModeInputs,
          st \in PaymentStatusInputs :
          /\ validate_paymentSchema([amount |-> a, status |-> st])
          /\ Accept(r, [IdleReq EXCEPT !.op = "createPayment", !.pc = "findLease",
                                       !.id = i, !.amount = a, !.mode = pm,
                                       !.status = OrKeep(st, NoStatus, "COMPLETED")])

createPayment_findLease(r) ==
    /\ At(r, "createPayment", "findLease")
    /\ IF req[r].id \notin LeaseIds
         THEN Respond(r, 404, "Lease not found")
         ELSE Goto(r, "findMode")
    /\ UNCHANGED <<store, settings, slots, budget, now>>

createPayment_findMode(r) ==
    /\ At(r, "createPayment", "findMode")
    /\ IF req[r].mode \notin PaymentModeIds
         THEN Respond(r, 404, "Payment mode not found")
         ELSE Goto(r, "create")
    /\ UNCHANGED <<store, settings, slots, budget, now>>

\* prisma.payment.create with paid_at: new Date()
createPayment_create(r) ==
    /\ At(r, "createPayment", "create")
    /\ paymentSeq' = paymentSeq + 1
    /\ payments' = payments @@ ((paymentSeq + 1) :>
           [lease_id |-> req[r].id, amount |-> req[r].amount,
            payment_mode_id |-> req[r].mode, status |-> req[r].status,
            paid_at |-> now])
    /\ req' = [req EXCEPT ![r].pc = "audit", ![r].row = paymentSeq + 1]
    /\ UNCHANGED <<tenants, tenantSeq, properties, propertySeq, locals, localSeq, leases, audit,
                   archive, settings, slots, budget, now>>

createPayment_audit(r) ==
    /\ At(r, "createPayment", "audit")
    /\ AuditLogCreate("CREATE", "Payment", req[r].row)
    /\ Respond(r, 201, "")
    /\ UNCHANGED <<tenants, tenantSeq, properties, propertySeq, locals, localSeq, leases,
                   ledger, archive, settings, slots, budget, now>>

route_updatePayment(r) ==
    /\ Free(r)
    /\ \E i \in 1..(paymentSeq + 1), a \in AmountInputs, pm \in PaymentModeInputs,
          st \in PaymentStatusInputs :
          /\ validate_paymentSchema([amount |-> a, status |-> st])
          /\ Accept(r, [IdleReq EXCEPT !.op = "updatePayment", !.pc = "find",
                                       !.id = i, !.amount = a, !.mode = pm,
                                       !.status = st])

updatePayment_find(r) ==
    /\ At(r, "updatePayment", "find")
    /\ IF req[r].id \notin PaymentIds
         THEN Respond(r, 404, "Payment not found")
         ELSE Goto(r, "update")
    /\ UNCHANGED <<store, settings, slots, budget, now>>

\* prisma.payment.update: the store rejects the update of a row that is gone
\* and a payment_mode_id no mode has
updatePayment_update(r) ==
    /\ At(r, "updatePayment", "update")
    /\ LET i == req[r].id IN
       IF i \notin PaymentIds \/ req[r].mode \notin PaymentModeIds
         THEN Throw(r) /\ UNCHANGED payments
         ELSE /\ payments' = [payments EXCEPT
                     ![i].amount = req[r].amount,
                     ![i].payment_mode_id = req[r].mode,
                     ![i].status = OrKeep(req[r].status, NoStatus, payments[i].status)]
              /\ Goto(r, "audit")
    /\ UNCHANGED <<tenants, tenantSeq, properties, propertySeq, locals, localSeq, leases, audit,
                   paymentSeq, archive, settings, slots, budget, now>>

updatePayment_audit(r) ==
    /\ At(r, "updatePayment", "audit")
    /\ AuditLogCreate("UPDATE", "Payment", req[r].id)
    /\ Respond(r, 200, "")
    /\ UNCHANGED <<tenants, tenantSeq, properties, propertySeq, locals, localSeq, leases,
                   ledger, archive, settings, slots, budget, now>>

route_deletePayment(r) ==
    /\ Free(r)
    /\ \E i \in 1..(paymentSeq + 1) :
          Accept(r, [IdleReq EXCEPT !.op = "deletePayment", !.pc = "find", !.id = i])

deletePayment_find(r) ==
    /\ At(r, "deletePayment", "find")
    /\ IF req[r].id \notin PaymentIds
         THEN Respond(r, 404, "Payment not found")
         ELSE Goto(r, "delete")
    /\ UNCHANGED <<store, settings, slots, budget, now>>

\* prisma.payment.delete: the store rejects the delete of a row that is gone or
\* that a document still references
deletePayment_delete(r) ==
    /\ At(r, "deletePayment", "delete")
    /\ LET i == req[r].id IN
       IF i \notin PaymentIds \/ DocumentsOfPayment(i) # {}
         THEN Throw(r) /\ UNCHANGED payments
         ELSE /\ payments' = [j \in PaymentIds \ {i} |-> payments[j]]
              /\ Goto(r, "audit")
    /\ UNCHANGED <<tenants, tenantSeq, properties, propertySeq, locals, localSeq, leases, audit,
                   paymentSeq, archive, settings, slots, budget, now>>

deletePayment_audit(r) ==
    /\ At(r, "deletePayment", "audit")
    /\ AuditLogCreate("DELETE", "Payment", req[r].id)
    /\ Respond(r, 204, "")
    /\ UNCHANGED <<tenants, tenantSeq, properties, propertySeq, locals, localSeq, leases,
                   ledger, archive, settings, slots, budget, now>>

(***************************************************************************)
(* getRevenueReport.  Time is counted in days; a month has DaysPerMonth    *)
(* days and a year MonthsPerYear months.                                   *)
(***************************************************************************)
DaysPerMonth == 3
MonthsPerYear == 4

\* EXTRACT(YEAR / MONTH / DAY FROM paid_at)
Year(t) == t \div (DaysPerMonth * MonthsPerYear)
Month(t) == ((t \div DaysPerMonth) % MonthsPerYear) + 1
Day(t) == (t % DaysPerMonth) + 1

\* new Date(new Date().getFullYear(), 0, 1)
StartOfYear(t) == Year(t) * DaysPerMonth * MonthsPerYear

ReportDateInputs == {NoDate, 4, 6}
GroupByInputs == {"", "day"}          \* "" : group_by absent from the query

\* the columns of GROUP BY 1,2[,3]
PeriodOf(t, group_by) ==
    IF group_by = "day" THEN <<Year(t), Month(t), Day(t)>> ELSE <<Year(t), Month(t)>>

\* ORDER BY 1 ASC, 2 ASC[, 3 ASC] on rows of equal length
PeriodBefore(a, b) ==
    \E k \in DOMAIN a : a[k] < b[k] /\ \A j \in 1..(k - 1) : a[j] = b[j]

RECURSIVE OrderedPeriods(_)
OrderedPeriods(S) ==
    IF S = {} THEN <<>>
    ELSE LET first == CHOOSE x \in S : \A y \in S \ {x} : PeriodBefore(x, y)
         IN <<first>> \o OrderedPeriods(S \ {first})

RECURSIVE OrderedIds(_)
OrderedIds(S) ==
    IF S = {} THEN <<>>
    ELSE LET first == CHOOSE x \in S : \A y \in S : x <= y
         IN <<first>> \o OrderedIds(S \ {first})

\* SUM(amount) over a set of payments
RECURSIVE SumAmount(_)
SumAmount(S) ==
    IF S = {} THEN 0
    ELSE LET i == CHOOSE x \in S : TRUE
         IN payments[i].amount + SumAmount(S \ {i})

\* rows.reduce((sum, item) => sum + (item[field] || 0), 0)
RECURSIVE SumField(_, _)
SumField(rows, field) ==
    IF rows = <<>> THEN 0 ELSE Head(rows)[field] + SumField(Tail(rows), field)

\* WHERE that counts a payment whatever its status
RevenuePayments_anyStatus(from, to) ==
    {i \in PaymentIds : payments[i].paid_at >= from /\ payments[i].paid_at <= to}

\* WHERE status = 'COMPLETED' AND paid_at >= $1 AND paid_at <= $2
RevenuePayments(from, to) ==
    {i \in PaymentIds : /\ payments[i].status = "COMPLETED"
                        /\ payments[i].paid_at >= from
                        /\ payments[i].paid_at <= to}

\* the rows of the raw query
RevenueData(from, to, group_by) ==
    LET S == RevenuePayments(from, to)
        periods == OrderedPeriods({PeriodOf(payments[i].paid_at, group_by) : i \in S})
        Of(k) == {i \in S : PeriodOf(payments[i].paid_at, group_by) = periods[k]}
    IN [k \in DOMAIN periods |->
           [period |-> periods[k], amount |-> SumAmount(Of(k)),
            count |-> Cardinality(Of(k))]]

\* prisma.payment.groupBy({ by: ['payment_mode_id'], ... }), here in the order
\* of the mode ids
RevenueByPaymentMode(from, to) ==
    LET S == RevenuePayments(from, to)
        modes == OrderedIds({payments[i].payment_mode_id : i \in S})
        Of(k) == {i \in S : payments[i].payment_mode_id = modes[k]}
    IN [k \in DOMAIN modes |->
           [payment_mode_id |-> modes[k], amount |-> SumAmount(Of(k)),
            count |-> Cardinality(Of(k))]]

\* paymentModeMap[item.payment_mode_id] || 'Unknown'
PaymentModeName(id) ==
    IF id \in PaymentModeIds THEN PaymentModeNames[id] ELSE "Unknown"

\* the handler reads the clock (new Date()) for its defaults: that instant lies
\* after every payment made so far and before every payment made later
route_getRevenueReport(r) ==
    /\ Free(r)
    /\ \E sd \in ReportDateInputs, ed \in ReportDateInputs, g \in GroupByInputs :
          req' = [req EXCEPT ![r] = [IdleReq EXCEPT
              !.op = "getRevenueReport", !.pc = "revenueData",
              !.from = IF sd # NoDate THEN sd ELSE StartOfYear(now + 1),
              !.to = IF ed # NoDate THEN ed ELSE now + 1,
              !.group_by = IF g = "" THEN "month" ELSE g]]
    /\ budget' = budget - 1
    /\ now' = now + 2
    /\ UNCHANGED <<store, settings, slots>>

getRevenueReport_revenueData(r) ==
    /\ At(r, "getRevenueReport", "revenueData")
    /\ req' = [req EXCEPT
           ![r].pc = "revenueByPaymentMode",
           ![r].data = <<RevenueData(req[r].from, req[r].to, req[r].group_by)>>]
    /\ UNCHANGED <<store, settings, slots, budget, now>>

getRevenueReport_revenueByPaymentMode(r) ==
    /\ At(r, "getRevenueReport", "revenueByPaymentMode")
    /\ req' = [req EXCEPT
           ![r].pc = "paymentModes",
           ![r].data = Append(req[r].data,
                              RevenueByPaymentMode(req[r].from, req[r].to))]
    /\ UNCHANGED <<store, settings, slots, budget, now>>

\* prisma.paymentMode.findMany and res.json
getRevenueReport_paymentModes(r) ==
    /\ At(r, "getRevenueReport", "paymentModes")
    /\ LET revenueData == req[r].data[1]
           revenueByPaymentMode == req[r].data[2]
       IN RespondJson(r,
             [revenueData |-> revenueData,
              revenueByPaymentMode |->
                  [k \in DOMAIN revenueByPaymentMode |->
                      [payment_mode |->
                           PaymentModeName(revenueByPaymentMode[k].payment_mode_id),
                       amount |-> revenueByPaymentMode[k].amount,
                       count |-> revenueByPaymentMode[k].count]],
              totalRevenue |-> SumField(revenueData, "amount"),
              totalTransactions |-> SumField(revenueData, "count")])
    /\ UNCHANGED <<store, settings, slots, budget, now>>

(***************************************************************************)
(* Payments and revenue reports on a store with one lease: the state the   *)
(* first createLease (tenant 1, LOC-101, LSE-1) leaves.                    *)
(***************************************************************************)
InitLeased ==
    /\ tenants = {1}
    /\ tenantSeq = 1
    /\ properties = {1}
    /\ propertySeq = 1
    /\ locals = [SeedLocals EXCEPT ![1].status = "OCCUPIED"]
    /\ localSeq = 2
    /\ leases = <<[tenant_id |-> 1, local_id |-> 1, lease_reference |-> "LSE-1",
                   end_date |-> NoDate, status |-> "ACTIVE"]>>
    /\ audit = <<AuditEntry("CREATE", "Tenant", 1), AuditEntry("CREATE", "Lease", 1)>>
    /\ payments = <<>>
    /\ paymentSeq = 0
    /\ documents = <<>>
    /\ documentSeq = 0
    /\ fileSeq = 0
    /\ files = {}
    /\ users = SeedUsers
    /\ paymentModes = SeedPaymentModes
    /\ req = [r \in Slots |-> [IdleReq EXCEPT !.op = "createLease", !.pc = "done",
                                              !.res = 201]]
    /\ now = 2

InitPay == InitLeased /\ slots = {"a"} /\ budget = MaxPayRequests

InitPayConc == InitLeased /\ slots = Slots /\ budget = MaxPayConcRequests

NextPay ==
    \E r \in Slots :
        \/ route_createPayment(r)
        \/ createPayment_findLease(r)
        \/ createPayment_findMode(r)
        \/ createPayment_create(r)
        \/ createPayment_audit(r)
        \/ route_updatePayment(r)
        \/ updatePayment_find(r)
        \/ updatePayment_update(r)
        \/ updatePayment_audit(r)
        \/ route_deletePayment(r)
        \/ deletePayment_find(r)
        \/ deletePayment_delete(r)
        \/ deletePayment_audit(r)
        \/ route_getRevenueReport(r)
        \/ getRevenueReport_revenueData(r)
        \/ getRevenueReport_revenueByPaymentMode(r)
        \/ getRevenueReport_paymentModes(r)

SpecPay == InitPay /\ [][NextPay]_vars

SpecPayConc == InitPayConc /\ [][NextPay]_vars

(***************************************************************************)
(* createProperty                                                          *)
(***************************************************************************)
MaxDashRequests == 6      \* requests accepted in a run on the dashboard
MaxProperties == 6        \* property ids handed out (the seed hands out one)

route_createProperty(r) ==
    /\ Free(r)
    /\ propertySeq + Cardinality({s \in Slots : At(s, "createProperty", "create")})
          < MaxProperties
    /\ Accept(r, [IdleReq EXCEPT !.op = "createProperty", !.pc = "create"])

createProperty_create(r) ==
    /\ At(r, "createProperty", "create")
    /\ propertySeq' = propertySeq + 1
    /\ properties' = properties \cup {propertySeq + 1}
    /\ req' = [req EXCEPT ![r].pc = "audit", ![r].row = propertySeq + 1]
    /\ UNCHANGED <<tenants, tenantSeq, locals, localSeq, leases, audit,
                   ledger, archive, settings, slots, budget, now>>

createProperty_audit(r) ==
    /\ At(r, "createProperty", "audit")
    /\ AuditLogCreate("CREATE", "Property", req[r].row)
    /\ Respond(r, 201, "")
    /\ UNCHANGED <<tenants, tenantSeq, properties, propertySeq, locals, localSeq, leases,
                   ledger, archive, settings, slots, budget, now>>

(***************************************************************************)
(* getOccupancyReport.  A rate is a percentage with two decimals and is    *)
(* kept in hundredths of a percent.                                        *)
(***************************************************************************)
\* include: { locals: ... } of a property
LocalsOfProperty(p) == {u \in LocalIds : locals[u].property_id = p}

\* property.locals.filter(local => local.status === status).length
LocalsWithStatus(p, status) == {u \in LocalsOfProperty(p) : locals[u].status = status}

\* an occupancy rate that takes a property without locals for fully occupied
OccupancyRate_emptyIsFull(occupied, total) ==
    IF total > 0 THEN (2 * occupied * 10000 + total) \div (2 * total) ELSE 10000

\* total > 0 ? Math.round((occupied / total) * 100 * 100) / 100 : 0
OccupancyRate(occupied, total) ==
    IF total > 0 THEN (2 * occupied * 10000 + total) \div (2 * total) ELSE 0

OccupancyData ==
    LET ids == OrderedIds(properties) IN
    [k \in DOMAIN ids |->
        LET p == ids[k] IN
        [propertyId |-> p,
         totalLocals |-> Cardinality(LocalsOfProperty(p)),
         occupiedLocals |-> Cardinality(LocalsWithStatus(p, "OCCUPIED")),
         availableLocals |-> Cardinality(LocalsWithStatus(p, "AVAILABLE")),
         maintenanceLocals |-> Cardinality(LocalsWithStatus(p, "MAINTENANCE")),
         occupancyRate |-> OccupancyRate(Cardinality(LocalsWithStatus(p, "OCCUPIED")),
                                         Cardinality(LocalsOfProperty(p))),
         activeLeases |-> Cardinality(UNION {ActiveLeasesOf(u) : u \in LocalsOfProperty(p)})]]

route_getOccupancyReport(r) ==
    /\ Free(r)
    /\ Accept(r, [IdleReq EXCEPT !.op = "getOccupancyReport", !.pc = "properties"])

getOccupancyReport_properties(r) ==
    /\ At(r, "getOccupancyReport", "properties")
    /\ LET occupancyData == OccupancyData IN
       RespondJson(r,
          [properties |-> occupancyData,
           overallStats |->
               [totalProperties |-> Len(occupancyData),
                totalLocals |-> SumField(occupancyData, "totalLocals"),
                totalOccupied |-> SumField(occupancyData, "occupiedLocals"),
                totalAvailable |-> SumField(occupancyData, "availableLocals"),
                totalMaintenance |-> SumField(occupancyData, "maintenanceLocals"),
                overallOccupancyRate |->
                    OccupancyRate(SumField(occupancyData, "occupiedLocals"),
                                  SumField(occupancyData, "totalLocals"))]])
    /\ UNCHANGED <<store, settings, slots, budget, now>>

(***************************************************************************)
(* getDashboardStats                                                       *)
(***************************************************************************)
\* new Date(new Date().getFullYear(), new Date().getMonth(), 1)
StartOfMonth(t) == (t \div DaysPerMonth) * DaysPerMonth

\* sixMonthsAgo.setMonth(sixMonthsAgo.getMonth() - 6)
SixMonthsBefore(t) == t - 6 * DaysPerMonth

RecentActivitiesTake == 10
TopPropertiesSlice == 5

\* the nine queries of Promise.all
DashboardCounts ==
    [totalProperties |-> Cardinality(properties),
     totalLocals |-> Cardinality(LocalIds),
     availableLocals |-> Cardinality({u \in LocalIds : locals[u].status = "AVAILABLE"}),
     occupiedLocals |-> Cardinality({u \in LocalIds : locals[u].status = "OCCUPIED"}),
     totalTenants |-> Cardinality(tenants),
     activeLeases |-> Cardinality({i \in LeaseIds : leases[i].status = "ACTIVE"}),
     totalPayments |-> Cardinality(PaymentIds),
     monthlyRevenue |->
         SumAmount({i \in PaymentIds :
                       /\ payments[i].status = "COMPLETED"
                       /\ payments[i].paid_at >= StartOfMonth(now)
                       /\ payments[i].paid_at < StartOfMonth(now) + DaysPerMonth}),
     overduePayments |->
         Cardinality({i \in PaymentIds : /\ payments[i].status = "PENDING"
                                         /\ payments[i].paid_at < now})]

\* auditLog.findMany({ take: 10, orderBy: { created_at: 'desc' } })
RecentActivities ==
    LET n == IF Len(audit) < RecentActivitiesTake THEN Len(audit) ELSE RecentActivitiesTake
    IN [k \in 1..n |-> audit[Len(audit) + 1 - k]]

\* payment.groupBy({ by: ['paid_at'], ..., orderBy: { paid_at: 'asc' } })
PaymentTrends ==
    LET S == {i \in PaymentIds : /\ payments[i].status = "COMPLETED"
                                 /\ payments[i].paid_at >= SixMonthsBefore(now)}
        dates == OrderedIds({payments[i].paid_at : i \in S})
        Of(k) == {i \in S : payments[i].paid_at = dates[k]}
    IN [k \in DOMAIN dates |->
           [date |-> dates[k], amount |-> SumAmount(Of(k)), count |-> Cardinality(Of(k))]]

\* property.findMany including locals, their leases and the leases' COMPLETED
\* payments since the first of the month
TopPropertiesQuery ==
    LET ids == OrderedIds(properties)
        PaymentsOf(i) ==
            LET ps == OrderedIds({j \in PaymentIds :
                                     /\ payments[j].lease_id = i
                                     /\ payments[j].status = "COMPLETED"
                                     /\ payments[j].paid_at >= StartOfMonth(now)})
            IN [k \in DOMAIN ps |-> [id |-> ps[k], amount |-> payments[ps[k]].amount]]
        LeasesOf(u) ==
            LET ls == OrderedIds(LeasesOfLocal(u))
            IN [k \in DOMAIN ls |-> [id |-> ls[k], payments |-> PaymentsOf(ls[k])]]
        LocalsOf(p) ==
            LET us == OrderedIds(LocalsOfProperty(p))
            IN [k \in DOMAIN us |->
                   [id |-> us[k], status |-> locals[us[k]].status,
                    leases |-> LeasesOf(us[k])]]
    IN [k \in DOMAIN ids |-> [id |-> ids[k], locals |-> LocalsOf(ids[k])]]

\* local.leases.reduce((leaseSum, lease) => leaseSum + lease.payments.reduce(...), 0)
RECURSIVE LeaseSum(_)
LeaseSum(ls) ==
    IF ls = <<>> THEN 0
    ELSE SumField(Head(ls).payments, "amount") + LeaseSum(Tail(ls))

\* property.locals.reduce((sum, local) => sum + local.leases.reduce(...), 0)
RECURSIVE LocalSum(_)
LocalSum(us) ==
    IF us = <<>> THEN 0
    ELSE LeaseSum(Head(us).leases) + LocalSum(Tail(us))

\* rows.sort((a, b) => b.totalRevenue - a.totalRevenue): a stable sort
RECURSIVE SortByRevenueDesc(_)
SortByRevenueDesc(rows) ==
    IF rows = <<>> THEN <<>>
    ELSE LET k == CHOOSE i \in DOMAIN rows :
                     /\ \A j \in DOMAIN rows : rows[j].totalRevenue <= rows[i].totalRevenue
                     /\ \A j \in 1..(i - 1) : rows[j].totalRevenue < rows[i].totalRevenue
         IN <<rows[k]>> \o SortByRevenueDesc(SubSeq(rows, 1, k - 1)
                                             \o SubSeq(rows, k + 1, Len(rows)))

PropertiesWithRevenue(topProperties) ==
    LET rows == [k \in DOMAIN topProperties |->
                    [id |-> topProperties[k].id,
                     totalRevenue |-> LocalSum(topProperties[k].locals),
                     localsCount |-> Len(topProperties[k].locals),
                     occupiedLocals |->
                         Cardinality({j \in DOMAIN topProperties[k].locals :
                                         topProperties[k].locals[j].status = "OCCUPIED"})]]
        sorted == SortByRevenueDesc(rows)
    IN SubSeq(sorted, 1, IF Len(sorted) < TopPropertiesSlice THEN Len(sorted)
                         ELSE TopPropertiesSlice)

route_getDashboardStats(r) ==
    /\ Free(r)
    /\ Accept(r, [IdleReq EXCEPT !.op = "getDashboardStats", !.pc = "counts"])

getDashboardStats_counts(r) ==
    /\ At(r, "getDashboardStats", "counts")
    /\ req' = [req EXCEPT ![r].pc = "recentActivities", ![r].data = <<DashboardCounts>>]
    /\ UNCHANGED <<store, settings, slots, budget, now>>

getDashboardStats_recentActivities(r) ==
    /\ At(r, "getDashboardStats", "recentActivities")
    /\ req' = [req EXCEPT ![r].pc = "paymentTrends",
                          ![r].data = Append(req[r].data, RecentActivities)]
    /\ UNCHANGED <<store, settings, slots, budget, now>>

getDashboardStats_paymentTrends(r) ==
    /\ At(r, "getDashboardStats", "paymentTrends")
    /\ req' = [req EXCEPT ![r].pc = "topProperties",
                          ![r].data = Append(req[r].data, PaymentTrends)]
    /\ UNCHANGED <<store, settings, slots, budget, now>>

\* the last query and res.json: the response carries topProperties, the rows of
\* the query; propertiesWithRevenue is computed and not sent
getDashboardStats_topProperties(r) ==
    /\ At(r, "getDashboardStats", "topProperties")
    /\ LET counts == req[r].data[1]
           topProperties == TopPropertiesQuery
           propertiesWithRevenue == PropertiesWithRevenue(topProperties)
       IN RespondJson(r,
             [stats |-> counts @@ [occupancyRate |->
                                      OccupancyRate(counts.occupiedLocals,
                                                    counts.totalLocals)],
              recentActivities |-> req[r].data[2],
              paymentTrends |-> req[r].data[3],
              topProperties |-> topProperties])
    /\ UNCHANGED <<store, settings, slots, budget, now>>

(***************************************************************************)
(* The dashboard on the seeded store, with or without the first lease:     *)
(* properties are added, locals deleted, and the reports read.             *)
(***************************************************************************)
InitDash == (InitStore \/ InitLeased) /\ slots = {"a"} /\ budget = MaxDashRequests

NextDash ==
    \E r \in Slots :
        \/ route_createProperty(r)
        \/ createProperty_create(r)
        \/ createProperty_audit(r)
        \/ route_deleteLocal(r)
        \/ deleteLocal_find(r)
        \/ deleteLocal_delete(r)
        \/ deleteLocal_audit(r)
        \/ route_getOccupancyReport(r)
        \/ getOccupancyReport_properties(r)
        \/ route_getDashboardStats(r)
        \/ getDashboardStats_counts(r)
        \/ getDashboardStats_recentActivities(r)
        \/ getDashboardStats_paymentTrends(r)
        \/ getDashboardStats_topProperties(r)

SpecDash == InitDash /\ [][NextDash]_vars

(***************************************************************************)
(* uploadDocument, deleteDocument.  No lease id is a payment id, so the    *)
(* store accepts no document row: the steps of the two handlers that       *)
(* follow prisma.document.create or find a row (uploadDocument_audit,      *)
(* deleteDocument_delete, deleteDocument_audit) are translated below and   *)
(* are steps of no run.                                                    *)
(***************************************************************************)
MaxDocRequests == 3       \* requests accepted in a run on documents
MaxFiles == 2             \* file names multer generates

DocumentIds == DOMAIN documents
NoFile == 0                            \* req.file undefined
OwnerTableInputs == {"", "LEASES", "PAYMENTS", "TENANTS"}
OwnerIdInputs == {0, 1, 2}             \* 0 : owner_id absent from the body
DocTypeInputs == {"", "CONTRACT"}

\* fs.unlinkSync(path)
Unlink(f) == files' = files \ {f}

\* POST /api/documents: multipart body with or without a file part
route_uploadDocument(r) ==
    /\ Free(r)
    /\ \E hasFile \in BOOLEAN, t \in OwnerTableInputs, o \in OwnerIdInputs,
          dt \in DocTypeInputs :
          /\ hasFile => fileSeq + Cardinality({s \in Slots :
                                                  At(s, "uploadDocument", "upload")})
                           < MaxFiles
          /\ Accept(r, [IdleReq EXCEPT
                 !.op = "uploadDocument",
                 !.pc = IF hasFile THEN "upload" ELSE "validate",
                 !.table = t, !.id = o, !.doc_type = dt])

\* uploadMiddleware: multer writes the file under a name of its own
uploadMiddleware(r) ==
    /\ At(r, "uploadDocument", "upload")
    /\ fileSeq' = fileSeq + 1
    /\ files' = files \cup {fileSeq + 1}
    /\ req' = [req EXCEPT ![r].pc = "validate", ![r].file = fileSeq + 1]
    /\ UNCHANGED <<tenants, tenantSeq, properties, propertySeq, locals, localSeq, leases,
                   audit, ledger, documents, documentSeq, settings, slots, budget, now>>

\* the handler up to its first store call
uploadDocument_validate(r) ==
    /\ At(r, "uploadDocument", "validate")
    /\ IF req[r].file = NoFile
         THEN Respond(r, 400, "No file uploaded") /\ UNCHANGED files
       ELSE IF req[r].table = "" \/ req[r].id = 0 \/ req[r].doc_type = ""
         THEN /\ Unlink(req[r].file)
              /\ Respond(r, 400, "owner_table, owner_id, and doc_type are required")
       ELSE IF req[r].table \notin {"LEASES", "PAYMENTS"}
         THEN /\ Unlink(req[r].file)
              /\ Respond(r, 400, "owner_table must be either LEASES or PAYMENTS")
       ELSE Goto(r, "findOwner") /\ UNCHANGED files
    /\ UNCHANGED <<tenants, tenantSeq, properties, propertySeq, locals, localSeq, leases,
                   audit, ledger, documents, documentSeq, fileSeq, settings, slots, budget, now>>

\* uploadDocument that answers 404 without removing the file
uploadDocument_findOwner_keepsFile(r) ==
    /\ At(r, "uploadDocument", "findOwner")
    /\ IF req[r].table = "LEASES" /\ req[r].id \notin LeaseIds
         THEN Respond(r, 404, "Lease not found")
       ELSE IF req[r].table = "PAYMENTS" /\ req[r].id \notin PaymentIds
         THEN Respond(r, 404, "Payment not found")
       ELSE Goto(r, "create")
    /\ UNCHANGED <<store, settings, slots, budget, now>>

uploadDocument_findOwner(r) ==
    /\ At(r, "uploadDocument", "findOwner")
    /\ IF req[r].table = "LEASES" /\ req[r].id \notin LeaseIds
         THEN Unlink(req[r].file) /\ Respond(r, 404, "Lease not found")
       ELSE IF req[r].table = "PAYMENTS" /\ req[r].id \notin PaymentIds
         THEN Unlink(req[r].file) /\ Respond(r, 404, "Payment not found")
       ELSE Goto(r, "create") /\ UNCHANGED files
    /\ UNCHANGED <<tenants, tenantSeq, properties, propertySeq, locals, localSeq, leases,
                   audit, ledger, documents, documentSeq, fileSeq, settings, slots, budget, now>>

\* Row ids are uuids: the id of a row of one table is the id of no row of
\* another table.
Uuid(table, i) == <<table, i>>
LeaseUuids == {Uuid("LEASES", i) : i \in LeaseIds}
PaymentUuids == {Uuid("PAYMENTS", i) : i \in PaymentIds}

\* documents.owner_id carries two foreign keys, documents_owner_id_lease_fkey
\* and documents_owner_id_payment_fkey: the store accepts a document whose
\* owner_id is the id of a lease and the id of a payment
DocumentOwnerKeys(owner) == owner \in LeaseUuids /\ owner \in PaymentUuids

\* prisma.document.create; a rejection by the store goes to the catch block,
\* which removes the file and answers 500
uploadDocument_create(r) ==
    /\ At(r, "uploadDocument", "create")
    /\ IF ~DocumentOwnerKeys(Uuid(req[r].table, req[r].id))
         THEN /\ Unlink(req[r].file)
              /\ Throw(r)
              /\ UNCHANGED <<documents, documentSeq>>
         ELSE /\ documentSeq' = documentSeq + 1
              /\ documents' = documents @@ ((documentSeq + 1) :>
                     [owner_table |-> req[r].table, owner_id |-> req[r].id,
                      file_key |-> req[r].file])
              /\ req' = [req EXCEPT ![r].pc = "audit", ![r].row = documentSeq + 1]
              /\ UNCHANGED files
    /\ UNCHANGED <<tenants, tenantSeq, properties, propertySeq, locals, localSeq, leases,
                   audit, ledger, fileSeq, settings, slots, budget, now>>

uploadDocument_audit(r) ==
    /\ At(r, "uploadDocument", "audit")
    /\ AuditLogCreate("CREATE", "Document", req[r].row)
    /\ Respond(r, 201, "")
    /\ UNCHANGED <<tenants, tenantSeq, properties, propertySeq, locals, localSeq, leases,
                   ledger, archive, settings, slots, budget, now>>

\* the store call the handler is waiting for is rejected (an internal failure):
\* catch (error) { if (req.file) fs.unlinkSync(req.file.path); res.status(500) }
uploadDocument_catch(r) ==
    /\ req[r].op = "uploadDocument"
    /\ req[r].pc \in {"findOwner", "create", "audit"}
    /\ Unlink(req[r].file)
    /\ Throw(r)
    /\ UNCHANGED <<tenants, tenantSeq, properties, propertySeq, locals, localSeq, leases,
                   audit, ledger, documents, documentSeq, fileSeq, settings, slots, budget, now>>

\* the store call the handler is waiting for is rejected:
\* catch (error) { res.status(500) }, nothing is put back
deleteDocument_catch(r) ==
    /\ req[r].op = "deleteDocument"
    /\ req[r].pc \in {"find", "delete", "audit"}
    /\ Throw(r)
    /\ UNCHANGED <<store, settings, slots, budget, now>>

route_deleteDocument(r) ==
    /\ Free(r)
    /\ \E i \in 1..(documentSeq + 1) :
          Accept(r, [IdleReq EXCEPT !.op = "deleteDocument", !.pc = "find", !.id = i])

\* prisma.document.findUnique, then the file is removed from disk if it is there
deleteDocument_find(r) ==
    /\ At(r, "deleteDocument", "find")
    /\ IF req[r].id \notin DocumentIds
         THEN Respond(r, 404, "Document not found") /\ UNCHANGED files
         ELSE LET filePath == documents[req[r].id].file_key IN
              /\ files' = files \ {filePath}
              /\ req' = [req EXCEPT
                     ![r].pc = "delete",
                     ![r].file = IF filePath \in files THEN filePath ELSE NoFile]
    /\ UNCHANGED <<tenants, tenantSeq, properties, propertySeq, locals, localSeq, leases,
                   audit, ledger, documents, documentSeq, fileSeq, settings, slots, budget, now>>

\* prisma.document.delete: the store rejects the delete of a row that is gone
deleteDocument_delete(r) ==
    /\ At(r, "deleteDocument", "delete")
    /\ LET i == req[r].id IN
       IF i \notin DocumentIds
         THEN Throw(r) /\ UNCHANGED documents
         ELSE /\ documents' = [k \in DocumentIds \ {i} |-> documents[k]]
              /\ Goto(r, "audit")
    /\ UNCHANGED <<tenants, tenantSeq, properties, propertySeq, locals, localSeq, leases,
                   audit, ledger, documentSeq, fileSeq, files, settings, slots, budget, now>>

deleteDocument_audit(r) ==
    /\ At(r, "deleteDocument", "audit")
    /\ AuditLogCreate("DELETE", "Document", req[r].id)
    /\ Respond(r, 204, "")
    /\ UNCHANGED <<tenants, tenantSeq, properties, propertySeq, locals, localSeq, leases,
                   ledger, archive, settings, slots, budget, now>>

(***************************************************************************)
(* Documents on a store with one lease and one payment: the state the      *)
(* first createPayment (lease 1, 100, Cash) leaves after the first lease.  *)
(***************************************************************************)
InitDoc ==
    /\ tenants = {1}
    /\ tenantSeq = 1
    /\ properties = {1}
    /\ propertySeq = 1
    /\ locals = [SeedLocals EXCEPT ![1].status = "OCCUPIED"]
    /\ localSeq = 2
    /\ leases = <<[tenant_id |-> 1, local_id |-> 1, lease_reference |-> "LSE-1",
                   end_date |-> NoDate, status |-> "ACTIVE"]>>
    /\ audit = <<AuditEntry("CREATE", "Tenant", 1), AuditEntry("CREATE", "Lease", 1),
                 AuditEntry("CREATE", "Payment", 1)>>
    /\ payments = <<[lease_id |-> 1, amount |-> 100, payment_mode_id |-> 1,
                     status |-> "COMPLETED", paid_at |-> 3]>>
    /\ paymentSeq = 1
    /\ documents = <<>>
    /\ documentSeq = 0
    /\ fileSeq = 0
    /\ files = {}
    /\ users = SeedUsers
    /\ paymentModes = SeedPaymentModes
    /\ req = [r \in Slots |-> [IdleReq EXCEPT !.op = "createPayment", !.pc = "done",
                                              !.res = 201]]
    /\ now = 3
    /\ slots = {"a"}
    /\ budget = MaxDocRequests

NextDoc ==
    \E r \in Slots :
        \/ route_uploadDocument(r)
        \/ uploadMiddleware(r)
        \/ uploadDocument_validate(r)
        \/ uploadDocument_findOwner(r)
        \/ uploadDocument_create(r)
        \/ uploadDocument_catch(r)
        \/ route_deleteDocument(r)
        \/ deleteDocument_find(r)
        \/ deleteDocument_catch(r)

SpecDoc == InitDoc /\ [][NextDoc]_vars

(***************************************************************************)
(* deleteProperty                                                          *)
(***************************************************************************)
route_deleteProperty(r) ==
    /\ Free(r)
    /\ \E p \in 1..(propertySeq + 1) :
          Accept(r, [IdleReq EXCEPT !.op = "deleteProperty", !.pc = "find", !.id = p])

deleteProperty_find(r) ==
    /\ At(r, "deleteProperty", "find")
    /\ IF req[r].id \notin properties
         THEN Respond(r, 404, "Property not found")
       ELSE IF LocalsOfProperty(req[r].id) # {}
         THEN Respond(r, 400, "Cannot delete property with existing locals")
       ELSE Goto(r, "delete")
    /\ UNCHANGED <<store, settings, slots, budget, now>>

\* prisma.property.delete: the store rejects the delete of a row that is gone or
\* that a local still references
deleteProperty_delete(r) ==
    /\ At(r, "deleteProperty", "delete")
    /\ LET p == req[r].id IN
       IF p \notin properties \/ LocalsOfProperty(p) # {}
         THEN Throw(r) /\ UNCHANGED properties
         ELSE properties' = properties \ {p} /\ Goto(r, "audit")
    /\ UNCHANGED <<tenants, tenantSeq, propertySeq, locals, localSeq, leases, audit,
                   ledger, archive, settings, slots, budget, now>>

deleteProperty_audit(r) ==
    /\ At(r, "deleteProperty", "audit")
    /\ AuditLogCreate("DELETE", "Property", req[r].id)
    /\ Respond(r, 204, "")
    /\ UNCHANGED <<tenants, tenantSeq, properties, propertySeq, locals, localSeq, leases,
                   ledger, archive, settings, slots, budget, now>>

(***************************************************************************)
(* authenticate, authorize and the routes.  A request arrives with its     *)
(* Authorization header; the middleware of its route either answers it     *)
(* (401, 403) or enters the handler.                                       *)
(***************************************************************************)
MaxAuthRequests == 2      \* requests that enter a handler in a run with middleware

jwtSecret == "JWT_SECRET"

Token(key, expired, role) ==
    [present |-> TRUE, key |-> key, expired |-> expired, role |-> role]

TokenInputs ==
    {NoToken,
     Token(jwtSecret, FALSE, "ADMIN"), Token(jwtSecret, FALSE, "MANAGER"),
     Token("forged", FALSE, "ADMIN"), Token(jwtSecret, TRUE, "ADMIN")}

\* jwt.verify(token, config.auth.jwtSecret) returns the payload (TRUE) or throws
verifyToken(token) == token.key = jwtSecret /\ ~token.expired

\* authenticate: 0 stands for next()
authenticate(token) ==
    IF ~token.present THEN 401
    ELSE IF verifyToken(token) THEN 0
    ELSE 401

\* authorize(roles) that lets every authenticated user through
authorize_anyRole(roles, user) == 0

\* authorize(roles): 0 stands for next()
authorize(roles, user) == IF user.role \notin roles THEN 403 ELSE 0

\* the middleware chain of each route: the roles given to authorize, or
\* no authorize at all
AdminManager == [authorize |-> TRUE, roles |-> {"ADMIN", "MANAGER"}]
AdminOnly == [authorize |-> TRUE, roles |-> {"ADMIN"}]
AuthenticateOnly == [authorize |-> FALSE, roles |-> {}]

Routes ==
    [createTenant |-> AdminManager, deleteTenant |-> AdminOnly,
     createLease |-> AdminManager, updateLease |-> AdminManager,
     terminateLease |-> AdminManager,
     createPayment |-> AdminManager, updatePayment |-> AdminManager,
     deletePayment |-> AdminOnly,
     uploadDocument |-> AdminManager, deleteDocument |-> AdminManager,
     createProperty |-> AdminManager, deleteProperty |-> AdminOnly,
     createLocal |-> AdminManager, updateLocal |-> AdminManager,
     deleteLocal |-> AdminOnly,
     getDashboardStats |-> AuthenticateOnly, getRevenueReport |-> AuthenticateOnly,
     getOccupancyReport |-> AuthenticateOnly]

\* the status the chain answers with before the handler, 0 when it reaches it
Middleware(op, token) ==
    IF authenticate(token) # 0 THEN authenticate(token)
    ELSE IF Routes[op].authorize THEN authorize(Routes[op].roles, token)
    ELSE 0

\* a request for a route arrives on a connection
receive(r) ==
    /\ r \in slots
    /\ req[r].pc \in {"idle", "done"}
    /\ budget > 0
    /\ \E op \in DOMAIN Routes, token \in TokenInputs :
          req' = [req EXCEPT ![r] = [IdleReq EXCEPT !.op = op, !.pc = "arrived",
                                                    !.authorization = token]]
    /\ UNCHANGED <<store, settings, slots, budget, now>>

\* res.status(401).json(...) of authenticate, res.status(403).json(...) of authorize
reject(r) ==
    /\ req[r].pc = "arrived"
    /\ LET status == Middleware(req[r].op, req[r].authorization) IN
       /\ status # 0
       /\ Respond(r, status, IF status = 403 THEN "Forbidden"
                             ELSE IF req[r].authorization.present THEN "Invalid token"
                             ELSE "Unauthorized")
    /\ UNCHANGED <<store, settings, slots, budget, now>>

\* every middleware of the route called next()
Passes(r, op) ==
    /\ req[r].pc = "arrived"
    /\ req[r].op = op
    /\ Middleware(op, req[r].authorization) = 0

guarded_createTenant(r) == Passes(r, "createTenant") /\ route_createTenant(r)
guarded_createLease(r) == Passes(r, "createLease") /\ route_createLease(r)
guarded_updateLease(r) == Passes(r, "updateLease") /\ route_updateLease(r)
guarded_terminateLease(r) == Passes(r, "terminateLease") /\ route_terminateLease(r)
guarded_createLocal(r) == Passes(r, "createLocal") /\ route_createLocal(r)
guarded_updateLocal(r) == Passes(r, "updateLocal") /\ route_updateLocal(r)
guarded_createPayment(r) == Passes(r, "createPayment") /\ route_createPayment(r)
guarded_updatePayment(r) == Passes(r, "updatePayment") /\ route_updatePayment(r)
guarded_createProperty(r) == Passes(r, "createProperty") /\ route_createProperty(r)
guarded_uploadDocument(r) == Passes(r, "uploadDocument") /\ route_uploadDocument(r)
guarded_deleteDocument(r) == Passes(r, "deleteDocument") /\ route_deleteDocument(r)
guarded_deleteTenant(r) == Passes(r, "deleteTenant") /\ route_deleteTenant(r)
guarded_deleteLocal(r) == Passes(r, "deleteLocal") /\ route_deleteLocal(r)
guarded_deletePayment(r) == Passes(r, "deletePayment") /\ route_deletePayment(r)
guarded_deleteProperty(r) == Passes(r, "deleteProperty") /\ route_deleteProperty(r)
guarded_getRevenueReport(r) == Passes(r, "getRevenueReport") /\ route_getRevenueReport(r)
guarded_getOccupancyReport(r) == Passes(r, "getOccupancyReport") /\ route_getOccupancyReport(r)
guarded_getDashboardStats(r) == Passes(r, "getDashboardStats") /\ route_getDashboardStats(r)

(***************************************************************************)
(* Every modelled route behind its middleware, on the store with one       *)
(* lease and one payment.                                                  *)
(***************************************************************************)
InitAuth ==
    /\ InitLeased
    /\ slots = {"a"}
    /\ budget = MaxAuthRequests

NextAuth ==
    \E r \in Slots :
        \/ receive(r)
        \/ reject(r)
        \/ guarded_createTenant(r)
        \/ guarded_createLease(r)
        \/ guarded_updateLease(r)
        \/ guarded_terminateLease(r)
        \/ guarded_createLocal(r)
        \/ guarded_updateLocal(r)
        \/ guarded_createPayment(r)
        \/ guarded_updatePayment(r)
        \/ guarded_createProperty(r)
        \/ guarded_uploadDocument(r)
        \/ guarded_deleteDocument(r)
        \/ guarded_deleteTenant(r)
        \/ guarded_deleteLocal(r)
        \/ guarded_deletePayment(r)
        \/ guarded_deleteProperty(r)
        \/ guarded_getRevenueReport(r)
        \/ guarded_getOccupancyReport(r)
        \/ guarded_getDashboardStats(r)
        \/ createTenant_create(r)
        \/ createTenant_audit(r)
        \/ deleteTenant_find(r)
        \/ deleteTenant_delete(r)
        \/ deleteTenant_audit(r)
        \/ createLease_findTenant(r)
        \/ createLease_findLocal(r)
        \/ createLease_findReference(r)
        \/ createLease_create(r)
        \/ createLease_updateLocal(r)
        \/ createLease_audit(r)
        \/ updateLease_find(r)
        \/ updateLease_findReference(r)
        \/ updateLease_update(r)
        \/ updateLease_updateLocal(r)
        \/ updateLease_audit(r)
        \/ terminateLease_find(r)
        \/ terminateLease_update(r)
        \/ terminateLease_updateLocal(r)
        \/ terminateLease_audit(r)
        \/ createLocal_findProperty(r)
        \/ createLocal_findReference(r)
        \/ createLocal_create(r)
        \/ createLocal_audit(r)
        \/ updateLocal_find(r)
        \/ updateLocal_findReference(r)
        \/ updateLocal_update(r)
        \/ updateLocal_audit(r)
        \/ deleteLocal_find(r)
        \/ deleteLocal_delete(r)
        \/ deleteLocal_audit(r)
        \/ createPayment_findLease(r)
        \/ createPayment_findMode(r)
        \/ createPayment_create(r)
        \/ createPayment_audit(r)
        \/ updatePayment_find(r)
        \/ updatePayment_update(r)
        \/ updatePayment_audit(r)
        \/ deletePayment_find(r)
        \/ deletePayment_delete(r)
        \/ deletePayment_audit(r)
        \/ getRevenueReport_revenueData(r)
        \/ getRevenueReport_revenueByPaymentMode(r)
        \/ getRevenueReport_paymentModes(r)
        \/ createProperty_create(r)
        \/ createProperty_audit(r)
        \/ getOccupancyReport_properties(r)
        \/ getDashboardStats_counts(r)
        \/ getDashboardStats_recentActivities(r)
        \/ getDashboardStats_paymentTrends(r)
        \/ getDashboardStats_topProperties(r)
        \/ uploadDocument_validate(r)
        \/ uploadDocument_findOwner(r)
        \/ uploadDocument_create(r)
        \/ deleteDocument_find(r)
        \/ deleteProperty_find(r)
        \/ deleteProperty_delete(r)
        \/ deleteProperty_audit(r)
        \/ uploadMiddleware(r)

SpecAuth == InitAuth /\ [][NextAuth]_vars

(***************************************************************************)
(* The handlers that insert or delete a row with a parent or a child, two  *)
(* at a time, on the store with one lease and one payment.                 *)
(***************************************************************************)
MaxRefRequests == 2       \* requests accepted in an interleaved run on parents and children

InitRef ==
    /\ tenants = {1}
    /\ tenantSeq = 1
    /\ properties = {1}
    /\ propertySeq = 1
    /\ locals = [SeedLocals EXCEPT ![1].status = "OCCUPIED"]
    /\ localSeq = 2
    /\ leases = <<[tenant_id |-> 1, local_id |-> 1, lease_reference |-> "LSE-1",
                   end_date |-> NoDate, status |-> "ACTIVE"]>>
    /\ audit = <<AuditEntry("CREATE", "Tenant", 1), AuditEntry("CREATE", "Lease", 1),
                 AuditEntry("CREATE", "Payment", 1)>>
    /\ payments = <<[lease_id |-> 1, amount |-> 100, payment_mode_id |-> 1,
                     status |-> "COMPLETED", paid_at |-> 3]>>
    /\ paymentSeq = 1
    /\ documents = <<>>
    /\ documentSeq = 0
    /\ fileSeq = 0
    /\ files = {}
    /\ users = SeedUsers
    /\ paymentModes = SeedPaymentModes
    /\ req = [r \in Slots |-> [IdleReq EXCEPT !.op = "createPayment", !.pc = "done",
                                              !.res = 201]]
    /\ now = 3
    /\ slots = Slots
    /\ budget = MaxRefRequests

NextRef ==
    \E r \in Slots :
        \/ route_createTenant(r)
        \/ createTenant_create(r)
        \/ createTenant_audit(r)
        \/ route_deleteTenant(r)
        \/ deleteTenant_find(r)
        \/ deleteTenant_delete(r)
        \/ deleteTenant_audit(r)
        \/ route_createLease(r)
        \/ createLease_findTenant(r)
        \/ createLease_findLocal(r)
        \/ createLease_findReference(r)
        \/ createLease_create(r)
        \/ createLease_updateLocal(r)
        \/ createLease_audit(r)
        \/ route_createLocal(r)
        \/ createLocal_findProperty(r)
        \/ createLocal_findReference(r)
        \/ createLocal_create(r)
        \/ createLocal_audit(r)
        \/ route_deleteLocal(r)
        \/ deleteLocal_find(r)
        \/ deleteLocal_delete(r)
        \/ deleteLocal_audit(r)
        \/ route_createProperty(r)
        \/ createProperty_create(r)
        \/ createProperty_audit(r)
        \/ route_deleteProperty(r)
        \/ deleteProperty_find(r)
        \/ deleteProperty_delete(r)
        \/ deleteProperty_audit(r)
        \/ route_createPayment(r)
        \/ createPayment_findLease(r)
        \/ createPayment_findMode(r)
        \/ createPayment_create(r)
        \/ createPayment_audit(r)
        \/ route_deletePayment(r)
        \/ deletePayment_find(r)
        \/ deletePayment_delete(r)
        \/ deletePayment_audit(r)
        \/ route_uploadDocument(r)
        \/ uploadMiddleware(r)
        \/ uploadDocument_validate(r)
        \/ uploadDocument_findOwner(r)
        \/ uploadDocument_create(r)

SpecRef == InitRef /\ [][NextRef]_vars

(***************************************************************************)
(* formatFileSize.  A number of bytes is kept as its digits in base K =     *)
(* 1024, lowest digit first and no leading zero, so that Math.pow(k, i)    *)
(* for every i stays in range.                                             *)
(***************************************************************************)
MaxDigits == 5            \* base-1024 digits of an input of formatFileSize

K == 1024        \* const k = 1024
sizes == <<"Bytes", "KB", "MB", "GB">>
DigitInputs == {0, 1, 512, 1023}

FileSizeInputs ==
    UNION {{d \in [1..n -> DigitInputs] : n > 0 => d[n] # 0} : n \in 0..MaxDigits}

\* sizes[i] of a JavaScript array with indices from 0
SizeAt(i) == IF i + 1 \in DOMAIN sizes THEN sizes[i + 1] ELSE "undefined"

\* Math.floor(100 * r) for the fraction r that the digits below position n, over
\* K^n, make
RECURSIVE HundredthsBelow(_, _)
HundredthsBelow(digits, n) ==
    IF n = 0 THEN 0
    ELSE (100 * digits[n] + HundredthsBelow(digits, n - 1)) \div K

\* (bytes / Math.pow(k, i)).toFixed(2), in hundredths: the nearest, and the
\* larger of two nearest
ToFixed2(digits, i) ==
    100 * digits[i + 1]
      + (IF i = 0 THEN 0
         ELSE (100 * digits[i] + HundredthsBelow(digits, i - 1) + (K \div 2)) \div K)

\* parseFloat of a numeral with two decimals: the decimals without their
\* trailing zeros
ParseFloat(hundredths) ==
    [whole |-> hundredths \div 100,
     decimals |-> IF hundredths % 100 = 0 THEN <<>>
                  ELSE IF hundredths % 10 = 0 THEN <<(hundredths % 100) \div 10>>
                  ELSE <<(hundredths % 100) \div 10, hundredths % 10>>]

\* number + ' ' + unit
formatFileSize(bytes) ==
    IF bytes = <<>> THEN [number |-> ParseFloat(0), unit |-> "Bytes"]
    ELSE LET i == Len(bytes) - 1      \* Math.floor(Math.log(bytes) / Math.log(k))
         IN [number |-> ParseFloat(ToFixed2(bytes, i)), unit |-> SizeAt(i)]

\* a page calls formatFileSize(bytes)
formatFileSize_call(r) ==
    /\ r \in slots
    /\ req[r].pc \in {"idle", "done"}
    /\ \E bytes \in FileSizeInputs :
          req' = [req EXCEPT ![r] = [IdleReq EXCEPT !.op = "formatFileSize",
                                                    !.pc = "call", !.data = bytes]]
    /\ UNCHANGED <<store, settings, slots, budget, now>>

formatFileSize_return(r) ==
    /\ At(r, "formatFileSize", "call")
    /\ req' = [req EXCEPT ![r].pc = "done", ![r].body = formatFileSize(req[r].data)]
    /\ UNCHANGED <<store, settings, slots, budget, now>>

InitFormat == InitStore /\ slots = {"a"} /\ budget = 0

NextFormat == \E r \in Slots : formatFileSize_call(r) \/ formatFileSize_return(r)

SpecFormat == InitFormat /\ [][NextFormat]_vars

(***************************************************************************)
(* createLease and terminateLease two at a time on the store with one      *)
(* lease.                                                                  *)
(***************************************************************************)
MaxTerminateRequests == 3 \* requests accepted in an interleaved run of createLease and terminateLease

InitTerminate == InitLeased /\ slots = Slots /\ budget = MaxTerminateRequests

NextTerminate ==
    \E r \in Slots :
        \/ route_createLease(r)
        \/ createLease_findTenant(r)
        \/ createLease_findLocal(r)
        \/ createLease_findReference(r)
        \/ createLease_create(r)
        \/ createLease_updateLocal(r)
        \/ createLease_audit(r)
        \/ route_terminateLease(r)
        \/ terminateLease_find(r)
        \/ terminateLease_update(r)
        \/ terminateLease_updateLocal(r)
        \/ terminateLease_audit(r)

SpecTerminate == InitTerminate /\ [][NextTerminate]_vars

(***************************************************************************)
(* prisma db seed: main of the seed script, run as a process of its own.   *)
(* Each await is a step; an exception ends the run with exit code 1.       *)
(***************************************************************************)
MaxSeedRuns == 2          \* runs of the seed script

\* the fields a `where` of upsert may name: the primary key and the columns
\* with a unique index.  Table Property has its primary key only.
UniqueFields ==
    [User |-> {"id", "email"}, PaymentMode |-> {"id", "code"},
     Property |-> {"id"}, Local |-> {"id", "reference_code"}]

Emails == {"admin@rentmaster.com", "manager@rentmaster.com", "staff@rentmaster.com"}
Roles == {"ADMIN", "MANAGER"}

\* the tables User and PaymentMode before a run: users registered through the
\* API under any of the emails, payment modes absent or seeded
UserTables ==
    {t \in SUBSET [email : Emails, role : Roles] :
        \A u, v \in t : u.email = v.email => u = v}
PaymentModeTables == {{}, SeedPaymentModes}

\* prisma.user.upsert({ where: { email }, update: {}, create: { email, role } })
UpsertUser(email, role) ==
    IF \E u \in users : u.email = email
      THEN users
      ELSE users \cup {[email |-> email, role |-> role]}

\* main() is entered; the two bcrypt.hash calls touch no table
seed_main(r) ==
    /\ Free(r)
    /\ Accept(r, [IdleReq EXCEPT !.op = "seed", !.pc = "admin"])

seed_admin(r) ==
    /\ At(r, "seed", "admin")
    /\ users' = UpsertUser("admin@rentmaster.com", "ADMIN")
    /\ Goto(r, "manager")
    /\ UNCHANGED <<store, paymentModes, slots, budget, now>>

seed_manager(r) ==
    /\ At(r, "seed", "manager")
    /\ users' = UpsertUser("manager@rentmaster.com", "MANAGER")
    /\ Goto(r, "paymentModes")
    /\ UNCHANGED <<store, paymentModes, slots, budget, now>>

\* prisma.paymentMode.createMany({ data, skipDuplicates: true })
seed_paymentModes(r) ==
    /\ At(r, "seed", "paymentModes")
    /\ paymentModes' = paymentModes \cup SeedPaymentModes
    /\ Goto(r, "property")
    /\ UNCHANGED <<store, users, slots, budget, now>>

\* prisma.property.upsert({ where: { name: 'Downtown Plaza' }, update: {},
\* create: { ..., locals: { create: [LOC-101, LOC-102] } } }).  The client
\* rejects a `where` that names no unique field before it queries the store:
\* main() throws, .catch logs and calls process.exit(1).  With a unique name the
\* row found is left as it is (update: {}), and when there is none the property
\* and its two locals are created, which the store rejects when one of the
\* reference codes is taken.
seed_property(r) ==
    /\ At(r, "seed", "property")
    /\ IF "name" \notin UniqueFields.Property
         THEN /\ Respond(r, 1, "Seeding failed")
              /\ UNCHANGED <<properties, propertySeq, locals, localSeq>>
       ELSE IF properties # {}
         THEN /\ Respond(r, 0, "Seeding completed successfully!")
              /\ UNCHANGED <<properties, propertySeq, locals, localSeq>>
       ELSE IF \E u \in DOMAIN locals : locals[u].reference_code \in {"LOC-101", "LOC-102"}
         THEN /\ Respond(r, 1, "Seeding failed")
              /\ UNCHANGED <<properties, propertySeq, locals, localSeq>>
       ELSE /\ properties' = properties \cup {propertySeq + 1}
            /\ propertySeq' = propertySeq + 1
            /\ locals' = locals
                   @@ ((localSeq + 1) :> [property_id |-> propertySeq + 1,
                                          reference_code |-> "LOC-101",
                                          status |-> "AVAILABLE"])
                   @@ ((localSeq + 2) :> [property_id |-> propertySeq + 1,
                                          reference_code |-> "LOC-102",
                                          status |-> "AVAILABLE"])
            /\ localSeq' = localSeq + 2
            /\ Respond(r, 0, "Seeding completed successfully!")
    /\ UNCHANGED <<tenants, tenantSeq, leases, audit, ledger, archive, settings,
                   slots, budget, now>>

\* the database after the migration: every table empty
EmptyStore ==
    /\ tenants = {}
    /\ tenantSeq = 0
    /\ properties = {}
    /\ propertySeq = 0
    /\ locals = <<>>
    /\ localSeq = 0
    /\ leases = <<>>
    /\ audit = <<>>
    /\ payments = <<>>
    /\ paymentSeq = 0
    /\ documents = <<>>
    /\ documentSeq = 0
    /\ fileSeq = 0
    /\ files = {}
    /\ req = [r \in Slots |-> IdleReq]
    /\ now = 0

InitSeed ==
    /\ EmptyStore
    /\ users \in UserTables
    /\ paymentModes \in PaymentModeTables
    /\ slots = {"a"}
    /\ budget = MaxSeedRuns

NextSeed ==
    \E r \in Slots :
        \/ seed_main(r)
        \/ seed_admin(r)
        \/ seed_manager(r)
        \/ seed_paymentModes(r)
        \/ seed_property(r)

SpecSeed == InitSeed /\ [][NextSeed]_vars

(***************************************************************************)
(* Properties.  A request "steps" when its slot changes; it "completes"    *)
(* on the step that sends its response.                                    *)
(***************************************************************************)
Quiescent == \A r \in Slots : req[r].pc \in {"idle", "done"}

Steps(r) == req'[r] # req[r] /\ req[r].pc \notin {"idle", "done"}

Completes(r) == Steps(r) /\ req'[r].pc = "done"

\* a createLease request that has not inserted its lease yet
CreateBeforeInsert(r) ==
    /\ req[r].op = "createLease"
    /\ req[r].pc \in {"findTenant", "findLocal", "findReference", "create"}

\* a createLease request that has inserted its lease
CreateAfterInsert(r) ==
    /\ req[r].op = "createLease"
    /\ req[r].pc \in {"updateLocal", "audit"}

TargetIsLeased(r) ==
    req[r].local_id \in LocalIds /\ ActiveLeasesOf(req[r].local_id) # {}

\* C1: in every state between requests, a unit is OCCUPIED if and only if
\* exactly one lease that references it is ACTIVE.
C1_OccupiedIffOneActiveLease ==
    Quiescent =>
        \A u \in LocalIds :
            (locals[u].status = "OCCUPIED") <=> (Cardinality(ActiveLeasesOf(u)) = 1)

\* C2: no unit ever has more than one ACTIVE lease, also when createLease
\* requests for the same unit interleave.
C2_AtMostOneActiveLease ==
    \A u \in LocalIds : Cardinality(ActiveLeasesOf(u)) <= 1

\* C3 as stated: every step of a createLease request whose target unit has an
\* ACTIVE lease leaves the store unchanged, and the request completes with 400.
C3_LeasedUnitAlways400 ==
    [][\A r \in Slots :
          (CreateBeforeInsert(r) /\ TargetIsLeased(r) /\ Steps(r)) =>
              /\ UNCHANGED store
              /\ Completes(r) => req'[r].res = 400]_vars

\* C3 amended: every step of a createLease request whose target unit has an
\* ACTIVE lease leaves the store unchanged, and the request completes with 404
\* "Tenant not found" when the tenant does not exist and with 400 otherwise.
C3_LeasedUnitRejected ==
    [][\A r \in Slots :
          (CreateBeforeInsert(r) /\ TargetIsLeased(r) /\ Steps(r)) =>
              /\ UNCHANGED store
              /\ Completes(r) =>
                    IF req[r].tenant_id \in tenants
                      THEN req'[r].res = 400
                      ELSE req'[r].res = 404 /\ req'[r].msg = "Tenant not found"]_vars

\* a createLease was answered "Local is already leased"
C3_Witness ==
    \E r \in Slots :
        /\ req[r].op = "createLease" /\ req[r].pc = "done"
        /\ req[r].res = 400 /\ req[r].msg = "Local is already leased"
        /\ \E u \in LocalIds : ActiveLeasesOf(u) # {}

\* C4: the lease a createLease request has inserted is never ACTIVE while its
\* unit is still AVAILABLE.
C4_NoPartialCreate ==
    \A r \in Slots :
        (CreateAfterInsert(r) /\ leases[req[r].row].status = "ACTIVE"
            /\ req[r].local_id \in LocalIds)
        => locals[req[r].local_id].status # "AVAILABLE"

\* C5: the step terminateLease takes on a lease that is TERMINATED sends 400 and
\* leaves the store (the lease and the unit with it) unchanged.
C5_TerminateTwiceRejected ==
    [][\A r \in Slots :
          (/\ req[r].op = "terminateLease" /\ req[r].pc \in {"find", "update"}
           /\ req[r].id \in LeaseIds /\ leases[req[r].id].status = "TERMINATED"
           /\ Steps(r)) =>
              /\ UNCHANGED store
              /\ Completes(r)
              /\ req'[r].res = 400]_vars

\* a terminateLease was answered "Lease is already terminated"
C5_Witness ==
    \E r \in Slots :
        /\ req[r].op = "terminateLease" /\ req[r].pc = "done"
        /\ req[r].res = 400 /\ req[r].msg = "Lease is already terminated"

\* C6: a lease that is TERMINATED stays TERMINATED in every step.
C6_TerminatedIsTerminal ==
    [][\A i \in LeaseIds :
          leases[i].status = "TERMINATED" => leases'[i].status = "TERMINATED"]_vars

\* C7: when an updateLease request with status TERMINATED completes with 200, the
\* unit of the lease is AVAILABLE, as after terminateLease.
C7_UpdateToTerminatedFreesUnit ==
    [][\A r \in Slots :
          (/\ req[r].op = "updateLease" /\ req[r].status = "TERMINATED"
           /\ Completes(r) /\ req'[r].res = 200) =>
              locals'[leases[req[r].id].local_id].status = "AVAILABLE"]_vars

\* an updateLease with status TERMINATED has written the lease and the unit
C7_Witness ==
    \E r \in Slots :
        /\ At(r, "updateLease", "audit") /\ req[r].status = "TERMINATED"
        /\ leases[req[r].id].status = "TERMINATED"
        /\ leases[req[r].id].end_date = NoDate
        /\ locals[leases[req[r].id].local_id].status = "AVAILABLE"

\* the response the preconditions of createLease, taken in the order tenant,
\* unit, unit status, active lease, lease reference, ask for; <<0, "">> when
\* all of them hold
FirstFailedPrecondition(t, u, ref) ==
    IF t \notin tenants THEN <<404, "Tenant not found">>
    ELSE IF u \notin LocalIds THEN <<404, "Local not found">>
    ELSE IF locals[u].status # "AVAILABLE" THEN <<400, "Local is not available">>
    ELSE IF ActiveLeasesOf(u) # {} THEN <<400, "Local is already leased">>
    ELSE IF LeasesByReference(ref) # {} THEN <<400, "Lease reference already exists">>
    ELSE <<0, "">>

FailedPrecondition(r) ==
    FirstFailedPrecondition(req[r].tenant_id, req[r].local_id, req[r].reference)

\* C8: a createLease request that completes before it inserts is answered with
\* the response of the first precondition that fails, and a request with a
\* failing precondition never inserts.
C8_FirstFailureWins ==
    [][\A r \in Slots :
          (CreateBeforeInsert(r) /\ Steps(r)) =>
              /\ Completes(r) => <<req'[r].res, req'[r].msg>> = FailedPrecondition(r)
              /\ FailedPrecondition(r) # <<0, "">> => UNCHANGED leases]_vars

\* a createLease for which the unit-status, the active-lease and the reference
\* check would all fail has passed the tenant check
C8_Witness ==
    \E r \in Slots :
        /\ At(r, "createLease", "findLocal")
        /\ req[r].local_id \in LocalIds
        /\ locals[req[r].local_id].status # "AVAILABLE"
        /\ ActiveLeasesOf(req[r].local_id) # {}
        /\ LeasesByReference(req[r].reference) # {}

AuditCountIn(log, entry) == Cardinality({k \in DOMAIN log : log[k] = entry})

AuditCount(entry) == AuditCountIn(audit, entry)

\* C9: a createLease request whose preconditions hold is not rejected, and it
\* completes with 201 in a state where its lease is ACTIVE for the given tenant
\* and unit, the unit is OCCUPIED and the audit log has exactly one CREATE entry
\* for the lease.
C9_CreateLeaseEffect ==
    [][\A r \in Slots :
          (/\ req[r].op = "createLease" /\ Completes(r)
           /\ (CreateAfterInsert(r) \/ FailedPrecondition(r) = <<0, "">>)) =>
              /\ req'[r].res = 201
              /\ req[r].row \in DOMAIN leases'
              /\ leases'[req[r].row].status = "ACTIVE"
              /\ leases'[req[r].row].tenant_id = req[r].tenant_id
              /\ leases'[req[r].row].local_id = req[r].local_id
              /\ locals'[req[r].local_id].status = "OCCUPIED"
              /\ AuditCountIn(audit', AuditEntry("CREATE", "Lease", req[r].row)) = 1]_vars

\* a createLease was answered 201
C9_Witness ==
    \E r \in Slots :
        /\ req[r].op = "createLease" /\ req[r].pc = "done" /\ req[r].res = 201
        /\ \E i \in LeaseIds :
              /\ leases[i].status = "ACTIVE"
              /\ locals[leases[i].local_id].status = "OCCUPIED"
              /\ AuditCount(AuditEntry("CREATE", "Lease", i)) = 1

\* C10: a terminateLease request on a lease that exists and is not TERMINATED
\* completes with 200 in a state where the lease is TERMINATED, its end date is
\* the termination date supplied or else the current time, and its unit is
\* AVAILABLE; the completing step appends one TERMINATE entry to the audit log
\* and no other step of the request touches the log.
C10_TerminateLeaseEffect ==
    [][\A r \in Slots :
          (req[r].op = "terminateLease" /\ Steps(r)) =>
              /\ ~Completes(r) => UNCHANGED audit
              /\ (/\ Completes(r)
                  /\ \/ req[r].pc # "find"
                     \/ /\ req[r].id \in LeaseIds
                        /\ leases[req[r].id].status # "TERMINATED") =>
                    /\ req'[r].res = 200
                    /\ leases'[req[r].id].status = "TERMINATED"
                    /\ leases'[req[r].id].end_date =
                          (IF req[r].date # NoDate THEN req[r].date ELSE now)
                    /\ locals'[leases[req[r].id].local_id].status = "AVAILABLE"
                    /\ audit' = Append(audit,
                          AuditEntry("TERMINATE", "Lease", req[r].id))]_vars

\* a terminateLease without termination date was answered 200 and has stamped
\* the current time
C10_Witness ==
    \E r \in Slots :
        /\ req[r].op = "terminateLease" /\ req[r].pc = "done" /\ req[r].res = 200
        /\ \E i \in LeaseIds :
              /\ leases[i].status = "TERMINATED"
              /\ leases[i].end_date = now
              /\ locals[leases[i].local_id].status = "AVAILABLE"
              /\ AuditCount(AuditEntry("TERMINATE", "Lease", i)) = 1

LeaseOps == {"createLease", "updateLease", "terminateLease"}

\* C11: a step of a request that is not a lease operation leaves every unit on
\* its side of OCCUPIED: a unit is OCCUPIED after the step if and only if it
\* existed and was OCCUPIED before it.
C11_OnlyLeaseEventsMoveOccupied ==
    [][\A r \in Slots :
          (Steps(r) /\ req[r].op \notin LeaseOps) =>
              \A u \in DOMAIN locals' :
                  (locals'[u].status = "OCCUPIED")
                     <=> (u \in LocalIds /\ locals[u].status = "OCCUPIED")]_vars

\* C12: a step of createLease or terminateLease leaves every unit on its side
\* of MAINTENANCE: a unit is in MAINTENANCE after the step if and only if it
\* was in MAINTENANCE before it.
C12_LeaseEventsKeepMaintenance ==
    [][\A r \in Slots :
          (Steps(r) /\ req[r].op \in {"createLease", "terminateLease"}) =>
              \A u \in LocalIds :
                  (locals[u].status = "MAINTENANCE")
                     <=> (u \in DOMAIN locals' /\ locals'[u].status = "MAINTENANCE")]_vars

\* the leases of unit u that terminateLease has terminated
TerminatedLeasesOf(u) ==
    {j \in LeaseIds : /\ leases[j].local_id = u
                      /\ leases[j].status = "TERMINATED"
                      /\ AuditCount(AuditEntry("TERMINATE", "Lease", j)) > 0}

\* C13: a terminateLease answered 200 leaves the unit of its lease AVAILABLE
\* and without ACTIVE lease when the lease was the only ACTIVE one, so that the
\* unit preconditions of createLease hold again; and a createLease on a unit
\* with a terminated lease, whose preconditions hold, completes with 201, the
\* terminated leases still TERMINATED, the new lease ACTIVE and the unit
\* OCCUPIED.
C13_LeasableAfterTermination ==
    [][\A r \in Slots :
          /\ (/\ req[r].op = "terminateLease" /\ Completes(r) /\ req'[r].res = 200
              /\ ActiveLeasesOf(leases[req[r].id].local_id) \subseteq {req[r].id}) =>
                 LET u == leases[req[r].id].local_id IN
                 /\ locals'[u].status = "AVAILABLE"
                 /\ \A j \in DOMAIN leases' :
                        leases'[j].local_id = u => leases'[j].status = "TERMINATED"
          /\ (/\ req[r].op = "createLease" /\ Completes(r)
              /\ (CreateAfterInsert(r) \/ FailedPrecondition(r) = <<0, "">>)
              /\ TerminatedLeasesOf(req[r].local_id) # {}) =>
                 /\ req'[r].res = 201
                 /\ \A j \in TerminatedLeasesOf(req[r].local_id) :
                        leases'[j].status = "TERMINATED"
                 /\ leases'[req[r].row].status = "ACTIVE"
                 /\ leases'[req[r].row].local_id = req[r].local_id
                 /\ locals'[req[r].local_id].status = "OCCUPIED"]_vars

\* a createLease was answered 201 on a unit whose earlier lease terminateLease
\* had terminated
C13_Witness ==
    \E r \in Slots :
        /\ req[r].op = "createLease" /\ req[r].pc = "done" /\ req[r].res = 201
        /\ \E i \in LeaseIds :
              /\ leases[i].status = "ACTIVE"
              /\ locals[leases[i].local_id].status = "OCCUPIED"
              /\ TerminatedLeasesOf(leases[i].local_id) # {}

\* C14 as stated: a deleteTenant request on a tenant that owns a lease is
\* answered 400.
C14_OwnerDeleteAlways400 ==
    [][\A r \in Slots :
          (/\ req[r].op = "deleteTenant" /\ Completes(r)
           /\ LeasesOfTenant(req[r].id) # {}) =>
              req'[r].res = 400]_vars

\* C14: every lease names a tenant that exists.  The step deleteTenant takes
\* after reading a tenant that owns a lease sends 400, the step in which it
\* deletes a tenant that has come to own a lease since the read sends 500, and
\* both leave the store (the tenant with it) unchanged.
C14_LeaseTenantExists ==
    /\ [](\A i \in LeaseIds : leases[i].tenant_id \in tenants)
    /\ [][\A r \in Slots :
             (/\ req[r].op = "deleteTenant" /\ Steps(r)
              /\ req[r].id \in tenants /\ LeasesOfTenant(req[r].id) # {}) =>
                 /\ UNCHANGED store
                 /\ Completes(r)
                 /\ req'[r].res = (IF req[r].pc = "find" THEN 400 ELSE 500)]_vars

\* a deleteTenant that read the tenant before a concurrent createLease inserted
\* a lease for it is about to delete the tenant
C14_Witness ==
    \E r \in Slots :
        /\ At(r, "deleteTenant", "delete")
        /\ LeasesOfTenant(req[r].id) # {}

RevenueResponse(r) ==
    req[r].op = "getRevenueReport" /\ req[r].pc = "done" /\ req[r].res = 200

\* C15: in every revenue report the per-period amounts and the per-payment-mode
\* amounts both add up to totalRevenue, and the counts to totalTransactions.
C15_RevenueAdditive ==
    \A r \in Slots :
        RevenueResponse(r) =>
            LET body == req[r].body IN
            /\ SumField(body.revenueData, "amount") = body.totalRevenue
            /\ SumField(body.revenueByPaymentMode, "amount") = body.totalRevenue
            /\ SumField(body.revenueData, "count") = body.totalTransactions
            /\ SumField(body.revenueByPaymentMode, "count") = body.totalTransactions

\* the payments a report on [from, to] has to count
CompletedInRange(from, to) ==
    {i \in PaymentIds : /\ payments[i].status = "COMPLETED"
                        /\ from <= payments[i].paid_at
                        /\ payments[i].paid_at <= to}

C17_ZeroUnitsZeroRate ==
    \A r \in Slots :
        /\ (req[r].op = "getOccupancyReport" /\ req[r].pc = "done") =>
              /\ req[r].res = 200
              /\ \A k \in DOMAIN req[r].body.properties :
                    LET row == req[r].body.properties[k] IN
                    /\ row.totalLocals = 0 => row.occupancyRate = 0
                    /\ row.occupancyRate \in 0..10000
              /\ req[r].body.overallStats.totalLocals = 0
                    => req[r].body.overallStats.overallOccupancyRate = 0
        /\ (req[r].op = "getDashboardStats" /\ req[r].pc = "done") =>
              /\ req[r].res = 200
              /\ req[r].body.stats.totalLocals = 0 => req[r].body.stats.occupancyRate = 0

\* an occupancy report on a store with several properties and no unit
C17_Witness ==
    \E r \in Slots :
        /\ req[r].op = "getOccupancyReport" /\ req[r].pc = "done" /\ req[r].res = 200
        /\ Len(req[r].body.properties) > 1
        /\ req[r].body.overallStats.totalLocals = 0
        /\ req[r].body.overallStats.overallOccupancyRate = 0

\* the completed payments of the current month on the leases of the units of p
MonthRevenueOfProperty(p) ==
    SumAmount({j \in PaymentIds :
                  /\ payments[j].status = "COMPLETED"
                  /\ payments[j].paid_at >= StartOfMonth(now)
                  /\ payments[j].lease_id \in LeaseIds
                  /\ leases[payments[j].lease_id].local_id \in LocalsOfProperty(p)})

\* C18: topProperties of a dashboard summary has at most 5 entries, each
\* carrying the current-month completed-payment revenue of its property, in
\* descending order of revenue, and no property left out has more revenue than
\* one that is in.
C18_TopFiveByRevenue ==
    \A r \in Slots :
        (req[r].op = "getDashboardStats" /\ req[r].pc = "done" /\ req[r].res = 200) =>
            LET top == req[r].body.topProperties IN
            /\ Len(top) <= 5
            /\ \A k \in DOMAIN top :
                  /\ "totalRevenue" \in DOMAIN top[k]
                  /\ top[k].totalRevenue = MonthRevenueOfProperty(top[k].id)
            /\ \A k \in 1..(Len(top) - 1) : top[k].totalRevenue >= top[k + 1].totalRevenue
            /\ \A p \in properties \ {top[k].id : k \in DOMAIN top} :
                  \A k \in DOMAIN top : MonthRevenueOfProperty(p) <= top[k].totalRevenue

\* the file names the rows of table Document carry
FileKeys == {documents[k].file_key : k \in DocumentIds}

\* C20: the step that answers an uploadDocument request whose file was written
\* leaves the file in storage only if it answers 201, and then a document row
\* carries the file's name; when it answers with an error the file is gone.
\* Between requests every stored file is the file of a document row.
C20_UploadCleansUp ==
    /\ [](Quiescent => files \subseteq FileKeys)
    /\ [][\A r \in Slots :
             (req[r].op = "uploadDocument" /\ Completes(r) /\ req[r].file # NoFile) =>
                 /\ req'[r].res # 201 => req[r].file \notin files'
                 /\ req[r].file \in files' =>
                       \E k \in DOMAIN documents' : documents'[k].file_key = req[r].file]_vars

\* an uploadDocument whose file was written was answered 404 or 500, and the
\* file it was given is not in storage
C20_Witness ==
    \E r \in Slots :
        /\ req[r].op = "uploadDocument" /\ req[r].pc = "done"
        /\ req[r].res \in {404, 500}
        /\ fileSeq > 0
        /\ fileSeq \notin files

\* C19: in every reachable state each committed lease row has its audit entry:
\* the audit log holds a CREATE entry of table Lease naming the row.
C19_CommittedLeaseIsAudited ==
    \A i \in LeaseIds :
        \E k \in DOMAIN audit : audit[k] = AuditEntry("CREATE", "Lease", i)

\* the token jwt.verify accepts
ValidToken(token) == token.present /\ token.key = jwtSecret /\ ~token.expired

ReadOps == {"getDashboardStats", "getRevenueReport", "getOccupancyReport"}
AdminOnlyOps == {"deleteTenant", "deletePayment", "deleteProperty", "deleteLocal"}

\* the step that takes an arrived request through the middleware of its route
Dispatched(r) == req[r].pc = "arrived" /\ req'[r] # req[r]

BringsDuplicate(r) ==
    \/ /\ req[r].op = "createLease" /\ req[r].pc \in {"findReference", "create"}
       /\ LeasesByReference(req[r].reference) # {}
    \/ /\ req[r].op = "updateLease" /\ req[r].pc \in {"findReference", "update"}
       /\ LeasesByReference(req[r].reference) \ {req[r].id} # {}
    \/ /\ req[r].op = "createLocal" /\ req[r].pc \in {"findReference", "create"}
       /\ LocalsByReference(req[r].reference) # {}
    \/ /\ req[r].op = "updateLocal" /\ req[r].pc \in {"findReference", "update"}
       /\ LocalsByReference(req[r].reference) \ {req[r].id} # {}

UniqueReferences ==
    /\ \A i, j \in LeaseIds :
          leases[i].lease_reference = leases[j].lease_reference => i = j
    /\ \A u, v \in LocalIds :
          locals[u].reference_code = locals[v].reference_code => u = v

\* C23 as stated: a request that brings a duplicate code is answered 400 and
\* changes nothing, also when the code was taken by a concurrent request.
C23_DuplicateAlways400 ==
    [][\A r \in Slots :
          (Steps(r) /\ BringsDuplicate(r)) =>
              Completes(r) /\ req'[r].res = 400 /\ UNCHANGED store]_vars

\* C23 amended: lease references and local reference codes are unique in every
\* state, and a request that brings a duplicate code changes nothing: it is
\* answered 400 when its lookup finds the code, and 500 when the code was taken
\* after its lookup and the store rejects the write.
C23_ReferencesStayUnique ==
    /\ []UniqueReferences
    /\ [][\A r \in Slots :
             (Steps(r) /\ BringsDuplicate(r)) =>
                 /\ Completes(r)
                 /\ UNCHANGED store
                 /\ req'[r].res = IF req[r].pc = "findReference" THEN 400 ELSE 500]_vars

\* a request is about to write a code that a concurrent request inserted after
\* the lookup
C23_Witness ==
    \E r \in Slots :
        /\ BringsDuplicate(r)
        /\ req[r].pc \in {"create", "update"}

ReferentialIntegrity ==
    /\ \A u \in LocalIds : locals[u].property_id \in properties
    /\ \A i \in LeaseIds : leases[i].tenant_id \in tenants /\ leases[i].local_id \in LocalIds
    /\ \A i \in PaymentIds : /\ payments[i].lease_id \in LeaseIds
                             /\ payments[i].payment_mode_id \in PaymentModeIds
    /\ \A k \in DocumentIds :
          \/ documents[k].owner_table = "LEASES" /\ documents[k].owner_id \in LeaseIds
          \/ documents[k].owner_table = "PAYMENTS" /\ documents[k].owner_id \in PaymentIds

\* C24: in every reachable state every local names an existing property, every
\* lease an existing tenant and local, every payment an existing lease and
\* payment mode and every document an existing lease or payment; the step of
\* createPayment that looks up a lease or a payment mode that does not exist
\* answers 404 and changes nothing.
C24_ReferentialIntegrity ==
    /\ []ReferentialIntegrity
    /\ [][\A r \in Slots :
             (\/ At(r, "createPayment", "findLease") /\ req[r].id \notin LeaseIds
              \/ At(r, "createPayment", "findMode") /\ req[r].mode \notin PaymentModeIds)
             /\ Steps(r)
             => Completes(r) /\ req'[r].res = 404 /\ UNCHANGED store]_vars

\* a deleteLocal is about to delete a local for which a concurrent createLease
\* inserted a lease after its lookup
C24_Witness ==
    \E r \in Slots :
        /\ At(r, "deleteLocal", "delete")
        /\ LeasesOfLocal(req[r].id) # {}

\* the digits of 1024^i
PowerOfK(i) == [n \in 1..(i + 1) |-> IF n = i + 1 THEN 1 ELSE 0]

\* C25: formatFileSize(0) is '0 Bytes'; for a positive number of bytes the unit
\* is one of Bytes, KB, MB, GB, the number has at most two decimals and lies
\* between the leading base-1024 digit and the next integer; 1024^i for i in
\* 0..3 is rendered as 1 and the i-th unit.
C25_FormatFileSize ==
    \A r \in Slots :
        At(r, "formatFileSize", "done") =>
            LET bytes == req[r].data
                text == req[r].body
            IN /\ bytes = <<>> =>
                      text = [number |-> [whole |-> 0, decimals |-> <<>>], unit |-> "Bytes"]
               /\ bytes # <<>> =>
                      /\ text.unit \in {"Bytes", "KB", "MB", "GB"}
                      /\ Len(text.number.decimals) <= 2
                      /\ text.number.whole >= bytes[Len(bytes)]
                      /\ \/ text.number.whole = bytes[Len(bytes)]
                         \/ /\ text.number.whole = bytes[Len(bytes)] + 1
                            /\ text.number.decimals = <<>>
               /\ \A i \in 0..3 :
                      bytes = PowerOfK(i) =>
                          text = [number |-> [whole |-> 1, decimals |-> <<>>],
                                  unit |-> sizes[i + 1]]

\* C26: every lease whose status is TERMINATED has an end date.
C26_TerminatedHasEndDate ==
    \A i \in LeaseIds : leases[i].status = "TERMINATED" => leases[i].end_date # NoDate

\* C27: a step of a terminateLease or updateLease request on a lease leaves the
\* status of every unit that carries another ACTIVE lease as it is.
C27_OtherActiveLeaseKeepsUnit ==
    [][\A r \in Slots :
          (req[r].op \in {"terminateLease", "updateLease"} /\ Steps(r)) =>
              \A u \in LocalIds :
                  ActiveLeasesOf(u) \ {req[r].id} # {} =>
                      locals'[u].status = locals[u].status]_vars

\* the TERMINATE entries the audit log holds for a lease
TerminateEntries(i) ==
    {n \in DOMAIN audit : audit[n] = AuditEntry("TERMINATE", "Lease", i)}

\* C28: where a terminated lease stays terminated, the audit log holds at most
\* one TERMINATE entry for a lease, and a terminateLease request succeeds only
\* if no TERMINATE entry for its lease has been written.
C28_OneTerminationPerLease ==
    /\ \A i \in LeaseIds : Cardinality(TerminateEntries(i)) <= 1
    /\ \A r \in Slots :
          At(r, "terminateLease", "audit") => TerminateEntries(req[r].id) = {}

\* the handlers of leases, tenants, payments, properties and units
EntityOps ==
    {"createTenant", "deleteTenant", "createLease", "updateLease", "terminateLease",
     "createPayment", "updatePayment", "deletePayment", "createProperty",
     "deleteProperty", "createLocal", "updateLocal", "deleteLocal"}

ClientError(r) == req'[r].pc = "done" /\ req'[r].res \in {400, 404}

\* the request is past a write of its handler: its remaining steps are the unit
\* update and the audit entry
HasWritten(r) == req[r].op \in EntityOps /\ req[r].pc \in {"updateLocal", "audit"}

\* C29: a lease, tenant, payment, property or unit request that is answered 400
\* or 404 has written nothing.  The step that answers 400 or 404 leaves the
\* entity store and the audit log unchanged; a step of such a request that does
\* change them puts the request past its writes or answers with another status;
\* and a request past its writes is never answered 400 or 404.
C29_ClientErrorWritesNothing ==
    [][\A r \in Slots :
          (req[r].op \in EntityOps /\ Steps(r)) =>
              /\ ClientError(r) => store' = store
              /\ (store' # store \/ HasWritten(r)) =>
                    /\ ~ClientError(r)
                    /\ req'[r].pc # "done" =>
                          (req'[r].op = req[r].op /\ req'[r].pc \in {"updateLocal", "audit"})]_vars

\* deleteTenant on the tenant of the lease was answered 400; the tenant and the
\* two audit entries of the initial store are still there
C29_Witness ==
    \E r \in Slots :
        /\ req[r].op = "deleteTenant" /\ req[r].pc = "done" /\ req[r].res = 400
        /\ 1 \in tenants
        /\ Len(audit) = 2

SeedEnded(r) == req[r].op = "seed" /\ req[r].pc = "done"

SeededLocals == {u \in LocalIds : locals[u].reference_code \in {"LOC-101", "LOC-102"}}

\* a run of the seed that is not the first changes no table
SecondRunChangesNothing ==
    [][\A r \in Slots :
          (req[r].op = "seed" /\ Steps(r) /\ budget < MaxSeedRuns - 1) =>
              (store' = store /\ settings' = settings)]_vars

\* C30: the seed is idempotent and seeds available units.  When a run of the
\* seed has ended, the two users, the three payment modes, the property and its
\* two units LOC-101 and LOC-102 are in the store, every seeded unit AVAILABLE
\* with no lease; and a run after the first changes no table.
C30_SeedIsIdempotent ==
    /\ [](\A r \in Slots : SeedEnded(r) =>
            /\ \A e \in {"admin@rentmaster.com", "manager@rentmaster.com"} :
                  \E u \in users : u.email = e
            /\ SeedPaymentModes \subseteq paymentModes
            /\ properties # {}
            /\ Cardinality(SeededLocals) = 2
            /\ \A u \in SeededLocals :
                  locals[u].status = "AVAILABLE" /\ LeasesOfLocal(u) = {})
    /\ SecondRunChangesNothing
====
